---- MODULE Spec2Model ----
(***************************************************************************)
(* A model of the a2a-vertex-multi-agent execution engine:                 *)
(*   - executeFunctionCallingLoop (core/src/vertex/function-calling.ts)    *)
(*   - BaseAgent.processRequest / invokeTool (core/src/agents)             *)
(*   - CostTracker.trackUsage (core/src/utils/cost-tracker.ts)             *)
(*   - BaseAgentClient.process and ResearchAnalysisWriterWorkflow.execute  *)
(*     (orchestrator)                                                      *)
(*   - BaseAgentClient.healthCheck and the orchestrator's GET /health      *)
(* JavaScript objects are records; an optional field that is absent is a   *)
(* field missing from the record's DOMAIN.                                 *)
(***************************************************************************)
EXTENDS Integers, Sequences, FiniteSets, TLC

\* ------------------------------------------------------------------ bounds
\* Concurrent process calls made on one BaseAgentClient.
MaxConcurrent == 2
\* Tools registerTools returns, and tools the MCP server lists, at most.
MaxTools == 2
\* Samples a CostTracker holds at most.
MaxSamples == 3
\* maxIterations, the loop's parameter, ranges over 0..MaxIter.
MaxIter == 2
\* Tool calls the language model requests in one run, over all its turns.
MaxCalls == 2
\* The largest value Date.now() takes, in ticks after the start of the model.
MaxClock == 1
MaxMade == 3
MaxSessions == 2
MaxLate == 1

VARIABLES
  \* ---- BaseAgent instance
  tools,              \* this.tools: names of the local tools, in order
  mcpTools,           \* this.mcpTools: names of the remote (MCP) tools, in order
  requests,           \* this.costTracker.requests
  \* ---- one processRequest call
  pc,                 \* where the call is
  input,              \* the AgentInput
  correlationId,
  startTime,
  output,             \* the AgentOutput returned, or Nothing
  thrown,             \* the error processRequest rejected with, or Nothing
  \* ---- executeFunctionCallingLoop
  maxIterations,
  iteration,
  messages,
  functionCalls,
  calls,              \* the batch being executed
  pending,            \* indices of the batch whose executor has not settled
  functionResponses,  \* what the i-th callback of Promise.all returned
  loopResult,         \* the FunctionCallingResult, or Nothing
  \* ---- environment and observation
  now,                \* Date.now()
  modelCalls,         \* GeminiClient.generateContent calls made so far
  loopUsage,          \* token counts the model reported for the loop's calls, summed
  lastTurn,           \* what the loop's latest model response was taken as
  outcomes,           \* how the executor of the i-th call of the batch settled
  \* ---- one ResearchAnalysisWriterWorkflow.execute call
  wfPc,               \* "idle", the stage in progress, "done" or "failed"
  wfInput,            \* the WorkflowInput
  wfCorrelationId,    \* execute's const correlationId
  agentResults,
  intermediateResults,
  stageResults,       \* researchResult, analysisResult, writerResult so far
  stageStartTime,     \* researchStartTime, analysisStartTime or writerStartTime
  wfOutput,           \* the WorkflowOutput returned, or Nothing
  wfThrown,           \* the error execute rejected with, or Nothing
  \* ---- the BaseAgentClient.process call of the stage in progress
  clientPc,           \* "none", "inFlight" or "backoff"
  attemptNumber,      \* p-retry's attempt counter
  sent,               \* every request put on the wire, in order
  failedAttempts,     \* what onFailedAttempt was called with in this call, in order
  \* ---- one GET /health of the orchestrator: a healthCheck call per client
  probe,              \* how the k-th client's GET /health request settled, or Nothing
  healthResult,       \* how the k-th client's healthCheck settled, or Nothing
  healthReply,        \* what the orchestrator's /health handler returned, or Nothing
  \* ---- BaseAgent: initialize, and what a request is prepared with
  initialized,        \* whether initialize has run
  prompt,             \* what buildPrompt returned for input, or Nothing
  declarations,       \* what buildFunctionDeclarations returned, or Nothing
  invoked,            \* the latest invokeTool call and how it settled, or Nothing
  \* ---- CostTracker, used on its own
  metrics,            \* what the latest getMetrics returned, or Nothing
  lastUsage,          \* what the latest trackUsage returned, or Nothing
  sinceReset,         \* the arguments of the trackUsage calls since the last reset
  \* ---- concurrent BaseAgentClient.process calls on one client instance
  callPc,             \* per call: "idle", "inFlight", "backoff", "returned", "threw"
  callInput,          \* per call: its AgentInput
  callAttempt,        \* per call: p-retry's attempt counter
  callSent,           \* per call: the attempt numbers of the requests it sent
  callFailed,         \* per call: what onFailedAttempt was called with
  callResult,         \* per call: the response returned or the error thrown
  \* ---- the loop, with its latest model response kept for observation
  lastResponse,       \* the result of the latest generateContent of the loop, or Nothing
  \* ---- concurrent BaseAgent.processRequest calls on one agent
  reqPc,              \* per request: "idle", "loop", "awaitUsage", "returned", "threw"
  reqModelCalls,      \* per request: generateContent calls its loop has made
  returnedSinceReset, \* processRequest calls that returned since the last reset
  \* ---- one MCPClient
  connected,          \* this.connected
  client,             \* this.client: null (Nothing) or the Client object created
  transport,          \* this.transport: null (Nothing) or the transport created
  made,               \* transports created since the last completed disconnect
  opened,             \* the Client objects whose connect resolved since then
  connPc,             \* per call: "idle", "connecting" or "closing"
  awaited,            \* per call: the Client object whose connect or close it awaits
  mcpOutcome,         \* how the latest call that ended settled
  \* ---- the web-search MCP server: its session table and /mcp handlers
  sessions,           \* the sessions Map: session id -> its transport
  issued,             \* session ids the transports have generated so far
  closed,             \* ids whose session was deleted or whose transport closed
  reply,              \* what the latest request was answered with
  \* ---- the agents behind the clients of one workflow execution
  runs,               \* per stage: processRequest calls the agent has run
  agentTracked,       \* per stage: totalTokens the agent tracker has recorded
  late,               \* per stage: timed-out attempts the agent has yet to finish
  served              \* the response of the agent to the attempt in flight

agentVars == <<tools, mcpTools, requests>>
requestVars == <<pc, input, correlationId, startTime, output, thrown>>
loopVars == <<maxIterations, iteration, messages, functionCalls, calls, pending,
              functionResponses, loopResult>>
envVars == <<now, modelCalls, loopUsage, lastTurn, outcomes>>
wfVars == <<wfPc, wfInput, wfCorrelationId, agentResults, intermediateResults,
            stageResults, stageStartTime, wfOutput, wfThrown>>
clientVars == <<clientPc, attemptNumber, sent, failedAttempts>>
healthVars == <<probe, healthResult, healthReply>>
setupVars == <<initialized, prompt, declarations, invoked>>
costVars == <<metrics, lastUsage, sinceReset>>
callVars == <<callPc, callInput, callAttempt, callSent, callFailed, callResult>>
turnVars == <<lastResponse>>
servingVars == <<reqPc, reqModelCalls, returnedSinceReset>>
mcpVars == <<connected, client, transport, made, opened, connPc, awaited, mcpOutcome>>
sessionVars == <<sessions, issued, closed, reply>>
deliveryVars == <<runs, agentTracked, late, served>>
vars == <<agentVars, requestVars, loopVars, envVars, wfVars, clientVars, healthVars,
          setupVars, costVars, callVars, turnVars, servingVars, mcpVars, sessionVars, deliveryVars>>

Nothing == [none |-> TRUE]

Calls == 1..MaxConcurrent

\* ------------------------------------------------------- correlation ids
\* A correlation id is a string; what isValidCorrelationId's regular
\* expression looks at is kept: whether the string has the 8-4-4-4-12 hex
\* layout, the character at the version position and the one at the variant
\* position. tag tells two ids of the same shape apart.
CorrelationIdString(layout, version, variant, tag) ==
  [layout |-> layout, version |-> version, variant |-> variant, tag |-> tag]

isValidCorrelationId(id) ==
  /\ id.layout
  /\ id.version = "4"
  /\ id.variant \in {"8", "9", "a", "b", "A", "B"}

\* crypto.randomUUID(): some version-4 UUID.
generateCorrelationId ==
  {CorrelationIdString(TRUE, "4", "8", "generated")}

\* ensureCorrelationId that keeps whatever id is supplied.
ensureKeepsSupplied(in) ==
  IF "correlationId" \in DOMAIN in
  THEN {in.correlationId}
  ELSE generateCorrelationId

\* The set of ids ensureCorrelationId may return for an input record.
ensureCorrelationId(in) ==
  IF "correlationId" \in DOMAIN in /\ isValidCorrelationId(in.correlationId)
  THEN {in.correlationId}
  ELSE generateCorrelationId

\* ------------------------------------------------------- model responses
TextPart(t) == [text |-> t]
FunctionCallPart(c) == [functionCall |-> c]
FunctionResponsePart(r) == [functionResponse |-> r]
FunctionCall(n) == [name |-> n, args |-> "args"]

\* Names the model may ask for: a local tool, a remote tool, and a name that
\* is in neither tool set.
RequestNames == {"search", "summarize", "ghost"}

Batches(n) == UNION {[1..k -> RequestNames] : k \in 1..n}

CallParts(b) == [i \in 1..Len(b) |-> FunctionCallPart(FunctionCall(b[i]))]

\* GenerateContentResult.response, as far as the loop reads it. n is the
\* number of tool calls the model may still request.
ModelResults(n) ==
  {[candidates |-> <<>>]}
    \cup {[candidates |-> <<[parts |-> p]>>] :
            p \in {<<>>, <<TextPart("answer")>>, <<TextPart("")>>,
                   <<TextPart(""), TextPart("answer")>>}}
    \cup {[candidates |-> <<[parts |-> CallParts(b)]>>] : b \in Batches(n)}
    \cup {[candidates |-> <<[parts |-> <<TextPart("thinking")>> \o CallParts(b)]>>] :
            b \in Batches(n)}

extractFunctionCalls(result) ==
  IF Len(result.candidates) = 0 THEN <<>>
  ELSE LET parts == result.candidates[1].parts
           fc == SelectSeq(parts, LAMBDA p : "functionCall" \in DOMAIN p)
       IN [i \in 1..Len(fc) |-> fc[i].functionCall]

\* extractTextResponse that returns the first text part, empty or not.
extractTextResponseAnyText(result) ==
  IF Len(result.candidates) = 0 THEN Nothing
  ELSE LET parts == result.candidates[1].parts
           tx == SelectSeq(parts, LAMBDA p : "text" \in DOMAIN p)
       IN IF Len(tx) = 0 THEN Nothing ELSE [text |-> tx[1].text]

\* The first truthy text part, or Nothing for undefined.
extractTextResponse(result) ==
  IF Len(result.candidates) = 0 THEN Nothing
  ELSE LET parts == result.candidates[1].parts
           tx == SelectSeq(parts, LAMBDA p : "text" \in DOMAIN p /\ p.text # "")
       IN IF Len(tx) = 0 THEN Nothing ELSE [text |-> tx[1].text]

\* usageMetadata of a response: absent, or the counts the model reports.
UsageMetadata ==
  {Nothing, [promptTokenCount |-> 3, candidatesTokenCount |-> 2]}

\* GeminiClient.generateContent's usage: the counts, 0 where absent.
GeminiTokenUsage(meta) ==
  IF "promptTokenCount" \in DOMAIN meta
  THEN [promptTokenCount |-> meta.promptTokenCount,
        candidatesTokenCount |-> meta.candidatesTokenCount]
  ELSE [promptTokenCount |-> 0, candidatesTokenCount |-> 0]

\* ------------------------------------------------------------- errors
Error(text, arg) == [message |-> <<text, arg>>]
ExceededError == Error("Function calling exceeded maximum iterations", "")
TerminatedError == Error("Function calling loop terminated without final answer", "")
ModelCallError == Error("Gemini API call failed after retries", "")

\* -------------------------------------------------------- cost tracker
\* PRICING, in billionths of a dollar per token ($0.00125 per 1K tokens is
\* 1250e-9 per token), so that calculateCost stays in the integers.
ProInputPrice == 1250
ProOutputPrice == 5000
FlashInputPrice == 75
FlashOutputPrice == 300

\* model.includes('flash')
IncludesFlash(m) == m \in {"gemini-1.5-flash", "gemini-2.0-flash"}

calculateCost(inputTokens, outputTokens, m) ==
  IF IncludesFlash(m)
  THEN inputTokens * FlashInputPrice + outputTokens * FlashOutputPrice
  ELSE inputTokens * ProInputPrice + outputTokens * ProOutputPrice

\* geminiConfig.model of the agent, which its CostTracker is built with.
model == "gemini-1.5-pro"

\* trackUsage whose totalTokens is the input count.
trackUsageTotalOfInput(inputTokens, outputTokens) ==
  [inputTokens |-> inputTokens,
   outputTokens |-> outputTokens,
   totalTokens |-> inputTokens,
   estimatedCost |-> calculateCost(inputTokens, outputTokens, model)]

\* The TokenUsage that trackUsage builds, pushes and returns.
trackUsage(inputTokens, outputTokens) ==
  [inputTokens |-> inputTokens,
   outputTokens |-> outputTokens,
   totalTokens |-> inputTokens + outputTokens,
   estimatedCost |-> calculateCost(inputTokens, outputTokens, model)]

\* ------------------------------------------------------------ invokeTool
Returned(v) == [threw |-> FALSE, value |-> v]
Threw(e) == [threw |-> TRUE, error |-> e]

Has(seq, name) == \E i \in 1..Len(seq) : seq[i] = name

\* What a local tool's execute may do: resolve with its result or reject.
LocalExecute(name) ==
  {Returned([results |-> name]), Threw(Error("tool failed: ", name))}

\* What the MCP server may answer to callTool.
MCPToolCallResponses ==
  {[content |-> <<[type |-> "text", text |-> "hit"]>>, isError |-> FALSE],
   [content |-> <<[type |-> "text", text |-> "no such page"]>>, isError |-> TRUE]}

\* response.content filtered to its text items, joined; the content itself
\* when that is empty.
TextContent(content) ==
  LET tx == SelectSeq(content, LAMBDA c : c.type = "text" /\ c.text # "")
  IN IF Len(tx) = 0 THEN [content |-> content]
     ELSE [str |-> [i \in 1..Len(tx) |-> tx[i].text]]

\* ToolOrigin that looks at the MCP tools first.
ToolOriginRemoteFirst(name) ==
  IF Has(mcpTools, name) THEN "remote"
  ELSE IF Has(tools, name) THEN "local"
  ELSE "none"

\* Where invokeTool finds a name: the local tools first, then the MCP tools.
ToolOrigin(name) ==
  IF Has(tools, name) THEN "local"
  ELSE IF Has(mcpTools, name) THEN "remote"
  ELSE "none"

\* How invokeTool settles after mcpClient.callTool for name.
CallMCPTool(name) ==
  {IF r.isError
   THEN Threw(Error("MCP tool returned error: ", name))
   ELSE Returned(TextContent(r.content)) : r \in MCPToolCallResponses}
    \cup {Threw(Error("MCP tool call failed: ", name))}

\* The outcomes of invokeTool(name, args): local tools first, then the MCP
\* tools, else 'Tool not found'.
invokeTool(name) ==
  IF ToolOrigin(name) = "local" THEN LocalExecute(name)
  ELSE IF ToolOrigin(name) = "remote" THEN CallMCPTool(name)
  ELSE {Threw(Error("Tool not found: ", name))}

\* ------------------------------------------------ function-calling loop
\* Tool calls requested so far in this run: the calls held by the model-role
\* messages of the conversation.
RECURSIVE CallsIn(_)
CallsIn(ms) ==
  IF Len(ms) = 0 THEN 0
  ELSE (IF Head(ms).role = "model" THEN Len(Head(ms).parts) ELSE 0) + CallsIn(Tail(ms))

\* FunctionResponse whose catch branch returns the raw error, not an
\* { error: message } object.
FunctionResponseRawError(call, outcome) ==
  IF outcome.threw
  THEN [name |-> call.name, response |-> [content |-> outcome.error]]
  ELSE [name |-> call.name, response |-> [content |-> outcome.value]]

\* What the Promise.all callback returns for a call that settled.
FunctionResponse(call, outcome) ==
  IF outcome.threw
  THEN [name |-> call.name, response |-> [content |-> [error |-> outcome.error.message]]]
  ELSE [name |-> call.name, response |-> [content |-> outcome.value]]

\* RecordCall that also records a call whose executor threw.
RecordCallAlways(fcs, call, outcome) ==
  Append(fcs, [name |-> call.name, args |-> call.args,
               result |-> FunctionResponse(call, outcome).response.content])

\* functionCalls after the callback of a settled call ran.
RecordCall(fcs, call, outcome) ==
  IF outcome.threw THEN fcs
  ELSE Append(fcs, [name |-> call.name, args |-> call.args, result |-> outcome.value])

\* The error the loop ends with when it leaves the while without returning.
LoopExitError(it, max) ==
  IF it >= max THEN ExceededError ELSE TerminatedError

\* Date.now(): the clock never runs backwards.
DateNow == now..MaxClock

\* processRequest's catch block: executionTime is computed and logged, and the
\* error is rethrown as it is.
Rethrow(error, executionTime) == error

\* processRequest rejects: the catch block reads the clock and rethrows.
Fail(error, start) ==
  \E t \in DateNow :
    /\ now' = t
    /\ thrown' = Rethrow(error, t - start)
    /\ pc' = "threw"

\* LoopTop without the iteration limit.
LoopTopUnbounded(start) ==
  /\ iteration' = iteration + 1
  /\ modelCalls' = modelCalls + 1
  /\ pc' = "awaitModel"
  /\ UNCHANGED <<thrown, now>>

\* LoopTop with the loop condition off by one.
LoopTopOffByOne(start) ==
  IF iteration <= maxIterations
  THEN /\ iteration' = iteration + 1
       /\ modelCalls' = modelCalls + 1
       /\ pc' = "awaitModel"
       /\ UNCHANGED <<thrown, now>>
  ELSE /\ Fail(LoopExitError(iteration, maxIterations), start)
       /\ UNCHANGED <<iteration, modelCalls>>

\* The top of the while loop: another generateContent call, or the exit.
LoopTop(start) ==
  IF iteration < maxIterations
  THEN /\ iteration' = iteration + 1
       /\ modelCalls' = modelCalls + 1
       /\ pc' = "awaitModel"
       /\ UNCHANGED <<thrown, now>>
  ELSE /\ Fail(LoopExitError(iteration, maxIterations), start)
       /\ UNCHANGED <<iteration, modelCalls>>

AgentInputs ==
  {[query |-> "q"],
   [query |-> "q", correlationId |-> CorrelationIdString(TRUE, "4", "a", "supplied")],
   [query |-> "q", correlationId |-> CorrelationIdString(TRUE, "1", "a", "supplied")]}

\* processRequest up to the loop's first generateContent call.
StartRequest(in) ==
  /\ pc = "idle"
  /\ input' = in
  /\ startTime' = now
  /\ correlationId' \in ensureCorrelationId(in)
  /\ messages' = <<[role |-> "user", parts |-> <<TextPart("prompt")>>]>>
  /\ functionCalls' = <<>>
  /\ LoopTop(now)
  /\ UNCHANGED <<agentVars, output, maxIterations, calls, pending, functionResponses,
                 loopResult, loopUsage, lastTurn, outcomes>>

\* generateContent of the loop resolves with result and usage.
ModelResponds(result, meta) ==
  /\ pc = "awaitModel"
  /\ loopUsage' = [promptTokenCount |->
                     loopUsage.promptTokenCount + GeminiTokenUsage(meta).promptTokenCount,
                   candidatesTokenCount |->
                     loopUsage.candidatesTokenCount + GeminiTokenUsage(meta).candidatesTokenCount]
  /\ LET cs == extractFunctionCalls(result)
         textResponse == extractTextResponse(result)
     IN IF Len(cs) > 0
        THEN /\ calls' = cs
             /\ pending' = 1..Len(cs)
             /\ functionResponses' = [i \in 1..Len(cs) |-> Nothing]
             /\ outcomes' = [i \in 1..Len(cs) |-> Nothing]
             /\ lastTurn' = "calls"
             /\ pc' = "execTools"
             /\ UNCHANGED <<loopResult, thrown, modelCalls, now>>
        ELSE IF textResponse # Nothing
        THEN /\ loopResult' = [finalAnswer |-> textResponse.text,
                               functionCalls |-> functionCalls,
                               totalIterations |-> iteration]
             \* processRequest goes on to its own generateContent(messages, [])
             /\ modelCalls' = modelCalls + 1
             /\ lastTurn' = "text"
             /\ pc' = "awaitUsage"
             /\ UNCHANGED <<calls, pending, functionResponses, thrown, now, outcomes>>
        ELSE /\ lastTurn' = "malformed"
             /\ Fail(LoopExitError(iteration, maxIterations), startTime)
             /\ UNCHANGED <<calls, pending, functionResponses, loopResult, modelCalls,
                            outcomes>>
  /\ UNCHANGED <<agentVars, input, correlationId, startTime, output, maxIterations,
                 iteration, messages, functionCalls>>

\* generateContent of the loop rejects (its retries are used up).
ModelFails ==
  /\ pc = "awaitModel"
  /\ lastTurn' = "failed"
  /\ Fail(ModelCallError, startTime)
  /\ UNCHANGED <<agentVars, input, correlationId, startTime, output, loopVars,
                 modelCalls, loopUsage, outcomes>>

\* The executor of the i-th call of the batch settles and its callback runs.
ToolSettles(i, outcome) ==
  /\ pc = "execTools"
  /\ i \in pending
  /\ functionCalls' = RecordCall(functionCalls, calls[i], outcome)
  /\ functionResponses' = [functionResponses EXCEPT ![i] = FunctionResponse(calls[i], outcome)]
  /\ pending' = pending \ {i}
  /\ outcomes' = [outcomes EXCEPT ![i] = outcome]
  /\ UNCHANGED <<agentVars, requestVars, maxIterations, iteration, messages, calls,
                 loopResult, now, modelCalls, loopUsage, lastTurn>>

\* PushBatch that pushes one message per result.
PushBatchOnePerResult(ms, cs, resps) ==
  ms \o <<[role |-> "model", parts |-> [i \in 1..Len(cs) |-> FunctionCallPart(cs[i])]]>>
     \o [i \in 1..Len(resps) |->
          [role |-> "user", parts |-> <<FunctionResponsePart(resps[i])>>]]

\* messages after the two pushes that follow Promise.all.
PushBatch(ms, cs, resps) ==
  ms \o <<[role |-> "model", parts |-> [i \in 1..Len(cs) |-> FunctionCallPart(cs[i])]],
          [role |-> "user",
           parts |-> [i \in 1..Len(resps) |-> FunctionResponsePart(resps[i])]]>>

\* FanIn that goes on as soon as one call has settled (Promise.race).
FanInAfterFirst ==
  /\ pc = "execTools"
  /\ pending # 1..Len(calls)
  /\ messages' = PushBatch(messages, calls, functionResponses)
  /\ LoopTop(startTime)
  /\ UNCHANGED <<agentVars, input, correlationId, startTime, output, maxIterations,
                 functionCalls, calls, pending, functionResponses, loopResult,
                 loopUsage, lastTurn, outcomes>>

\* Promise.all resolves: the batch is appended and the loop continues.
FanIn ==
  /\ pc = "execTools"
  /\ pending = {}
  /\ messages' = PushBatch(messages, calls, functionResponses)
  /\ LoopTop(startTime)
  /\ UNCHANGED <<agentVars, input, correlationId, startTime, output, maxIterations,
                 functionCalls, calls, pending, functionResponses, loopResult,
                 loopUsage, lastTurn, outcomes>>

\* The AgentOutput processRequest returns.
AgentOutput(cid, res, executionTime, tokenUsage) ==
  [correlationId |-> cid,
   result |-> res.finalAnswer,
   metadata |-> [agentName |-> "agent",
                 executionTime |-> executionTime,
                 tokenUsage |-> tokenUsage,
                 toolsUsed |-> [i \in 1..Len(res.functionCalls) |-> res.functionCalls[i].name],
                 iterations |-> res.totalIterations]]

\* processRequest's generateContent call after the loop resolves; its usage
\* is tracked and the response returned.
UsageResponds(meta) ==
  /\ pc = "awaitUsage"
  /\ \E t \in DateNow :
       LET usage == GeminiTokenUsage(meta)
           tokenUsage == trackUsage(usage.promptTokenCount, usage.candidatesTokenCount)
       IN /\ now' = t
          /\ requests' = Append(requests, tokenUsage)
          /\ output' = AgentOutput(correlationId, loopResult, t - startTime, tokenUsage)
  /\ pc' = "returned"
  /\ UNCHANGED <<tools, mcpTools, input, correlationId, startTime, thrown, loopVars,
                 modelCalls, loopUsage, lastTurn, outcomes>>

\* processRequest's generateContent call after the loop rejects.
UsageFails ==
  /\ pc = "awaitUsage"
  /\ Fail(ModelCallError, startTime)
  /\ UNCHANGED <<agentVars, input, correlationId, startTime, output, loopVars,
                 modelCalls, loopUsage, lastTurn, outcomes>>

\* A BaseAgent as its constructor leaves it, but for tools and mcpTools.
InitConstructed ==
  /\ requests = <<>>
  /\ prompt = Nothing
  /\ declarations = Nothing
  /\ invoked = Nothing
  /\ metrics = Nothing
  /\ lastUsage = Nothing
  /\ sinceReset = <<>>
  /\ pc = "idle"
  /\ input = Nothing
  /\ correlationId = Nothing
  /\ startTime = 0
  /\ output = Nothing
  /\ thrown = Nothing
  /\ iteration = 0
  /\ messages = <<>>
  /\ functionCalls = <<>>
  /\ calls = <<>>
  /\ pending = {}
  /\ functionResponses = <<>>
  /\ loopResult = Nothing
  /\ modelCalls = 0
  /\ loopUsage = [promptTokenCount |-> 0, candidatesTokenCount |-> 0]
  /\ lastTurn = "none"
  /\ outcomes = <<>>
  /\ lastResponse = Nothing
  /\ reqPc = [r \in Calls |-> "idle"]
  /\ reqModelCalls = [r \in Calls |-> 0]
  /\ returnedSinceReset = 0
  /\ connected = FALSE
  /\ client = Nothing
  /\ transport = Nothing
  /\ made = 0
  /\ opened = {}
  /\ connPc = [c \in Calls |-> "idle"]
  /\ awaited = [c \in Calls |-> Nothing]
  /\ mcpOutcome = [op |-> "none", threw |-> FALSE, error |-> <<"", "">>,
                   contacted |-> FALSE, note |-> "none"]
  /\ sessions = <<>>
  /\ issued = 0
  /\ closed = {}
  /\ reply = [method |-> "none", header |-> Nothing, status |-> 0, to |-> Nothing]
  /\ runs = [k \in 1..3 |-> 0]
  /\ agentTracked = [k \in 1..3 |-> 0]
  /\ late = [k \in 1..3 |-> 0]
  /\ served = Nothing

\* An agent that initialize has given one local and one remote tool.
InitAgent ==
  /\ tools = <<"search">>
  /\ mcpTools = <<"summarize">>
  /\ initialized = TRUE
  /\ InitConstructed

InitWorkflow ==
  /\ wfPc = "idle"
  /\ wfInput = Nothing
  /\ wfCorrelationId = Nothing
  /\ agentResults = <<>>
  /\ intermediateResults = <<>>
  /\ stageResults = <<>>
  /\ stageStartTime = 0
  /\ wfOutput = Nothing
  /\ wfThrown = Nothing
  /\ clientPc = "none"
  /\ attemptNumber = 0
  /\ sent = <<>>
  /\ failedAttempts = <<>>
  /\ probe = [k \in 1..3 |-> Nothing]
  /\ healthResult = [k \in 1..3 |-> Nothing]
  /\ healthReply = Nothing
  /\ callPc = [c \in Calls |-> "idle"]
  /\ callInput = [c \in Calls |-> Nothing]
  /\ callAttempt = [c \in Calls |-> 0]
  /\ callSent = [c \in Calls |-> <<>>]
  /\ callFailed = [c \in Calls |-> <<>>]
  /\ callResult = [c \in Calls |-> Nothing]

\* One agent serving one request.
Init ==
  /\ InitAgent
  /\ InitWorkflow
  /\ maxIterations \in 0..MaxIter
  /\ now = 0

Next ==
  \/ pc = "idle" /\ UNCHANGED <<wfVars, clientVars, healthVars, setupVars, costVars, callVars, turnVars, servingVars, mcpVars, sessionVars, deliveryVars>> /\
       \E in \in AgentInputs : StartRequest(in)
  \/ pc = "awaitModel" /\ UNCHANGED <<wfVars, clientVars, healthVars, setupVars, costVars, callVars, turnVars, servingVars, mcpVars, sessionVars, deliveryVars>> /\
       \E result \in ModelResults(MaxCalls - CallsIn(messages)), meta \in UsageMetadata :
         ModelResponds(result, meta)
  \/ ModelFails /\ UNCHANGED <<wfVars, clientVars, healthVars, setupVars, costVars, callVars, turnVars, servingVars, mcpVars, sessionVars, deliveryVars>>
  \/ pc = "execTools" /\ UNCHANGED <<wfVars, clientVars, healthVars, setupVars, costVars, callVars, turnVars, servingVars, mcpVars, sessionVars, deliveryVars>> /\
       \E i \in pending : \E outcome \in invokeTool(calls[i].name) : ToolSettles(i, outcome)
  \/ FanIn /\ UNCHANGED <<wfVars, clientVars, healthVars, setupVars, costVars, callVars, turnVars, servingVars, mcpVars, sessionVars, deliveryVars>>
  \/ UNCHANGED <<wfVars, clientVars, healthVars, setupVars, costVars, callVars, turnVars, servingVars, mcpVars, sessionVars, deliveryVars>> /\ \E meta \in UsageMetadata : UsageResponds(meta)
  \/ UsageFails /\ UNCHANGED <<wfVars, clientVars, healthVars, setupVars, costVars, callVars, turnVars, servingVars, mcpVars, sessionVars, deliveryVars>>

Spec == Init /\ [][Next]_vars

\* One request when every generateContent call and every tool executor
\* settles: each awaited promise is eventually resolved or rejected, and the
\* continuation after it runs.
SpecLive == Init /\ [][Next]_vars /\ WF_vars(Next)

\* No tool executor of the batch is awaited: every step but ToolSettles.
NoToolPending == pc # "execTools" \/ pending = {}

\* One request when generateContent always settles and a tool executor may
\* never settle: Promise.all then never resolves.
SpecToolsMayHang == Init /\ [][Next]_vars /\ WF_vars(Next /\ NoToolPending)

\* --------------------------------------------- orchestrator: the workflow
\* retries of BaseAgentClient.process's pRetry options.
Retries == 3

Stages == <<"research-agent", "analysis-agent", "writer-agent">>

StageIndex(name) == CHOOSE k \in 1..Len(Stages) : Stages[k] = name

WorkflowInputs ==
  {[query |-> "q"],
   [query |-> "q", correlationId |-> CorrelationIdString(TRUE, "4", "a", "supplied")],
   [query |-> "q", correlationId |-> CorrelationIdString(TRUE, "4", "B", "supplied"),
    context |-> "ctx"],
   [query |-> "q", correlationId |-> CorrelationIdString(TRUE, "1", "a", "supplied")],
   [query |-> "q", correlationId |-> CorrelationIdString(FALSE, "4", "a", "supplied")]}

\* The fields of in that are set: an undefined context is no field of the
\* object JSON.stringify writes.
WithContext(req, in) ==
  IF "context" \in DOMAIN in
  THEN [f \in DOMAIN req \cup {"context"} |->
          IF f = "context" THEN in.context ELSE req[f]]
  ELSE req

\* PreviousResults that hands on the latest stage's result only.
PreviousResultsLatestOnly(k, results) ==
  [j \in 1..(IF k > 1 THEN 1 ELSE 0) |->
     [agentName |-> Stages[k - 1], result |-> results[k - 1].result]]

\* previousResults of the request of the k-th stage.
PreviousResults(k, results) ==
  [j \in 1..(k - 1) |-> [agentName |-> Stages[j], result |-> results[j].result]]

\* StageRequest that lets every stage after the first get an id of its own.
StageRequestOwnId(k, cid, in, results) ==
  LET own == IF k = 1 THEN cid ELSE CHOOSE g \in generateCorrelationId : TRUE
  IN IF k = 1
     THEN WithContext([correlationId |-> own, query |-> <<in.query>>], in)
     ELSE WithContext([correlationId |-> own, query |-> <<in.query>>,
                       previousResults |-> PreviousResults(k, results)], in)

\* The AgentInput execute hands to the client of the k-th stage.
StageRequest(k, cid, in, results) ==
  IF k = 1
  THEN WithContext([correlationId |-> cid, query |-> <<in.query>>], in)
  ELSE IF k = 2
  THEN WithContext([correlationId |-> cid, query |-> <<in.query>>,
                    previousResults |-> PreviousResults(2, results)], in)
  ELSE WithContext([correlationId |-> cid,
                    query |-> <<"Create a comprehensive report based on the research and analysis. ",
                                in.query>>,
                    previousResults |-> PreviousResults(3, results)], in)

\* One attempt of process: the request as it goes on the wire.
WireRequest(k, attempt, body) == [agent |-> Stages[k], attempt |-> attempt, body |-> body]

\* What an agent may answer with status 200 to a request body.
AgentResponses(k, body) ==
  {[correlationId |-> cid,
    result |-> [by |-> Stages[k], text |-> t],
    metadata |-> [agentName |-> Stages[k],
                  tokenUsage |-> IF t = "short" THEN trackUsage(3, 2)
                                 ELSE trackUsage(10, 4)]] :
     cid \in ensureCorrelationId(body), t \in {"short", "long"}}

\* How an attempt may fail: the request times out, or the agent answers with
\* a status other than 200.
AttemptFailures == {"timeout", "status 400"}

\* The error an attempt fails with: undici's timeout error, or the Error the
\* attempt function throws for a status other than 200.
AttemptError(failure) ==
  IF failure = "timeout" THEN Error("Headers Timeout Error", "")
  ELSE Error("Agent returned ", failure)

\* The entry execute pushes to agentResults for the k-th stage.
AgentResult(k, resp, executionTime) ==
  [name |-> Stages[k],
   executionTime |-> executionTime,
   tokenUsage |-> resp.metadata.tokenUsage,
   success |-> TRUE]

\* totalTokenUsage whose reducer returns the agent's usage, dropping acc.
totalTokenUsageNoAccumulator(results) ==
  IF Len(results) = 0
  THEN [inputTokens |-> 0, outputTokens |-> 0, totalTokens |-> 0, estimatedCost |-> 0]
  ELSE results[Len(results)].tokenUsage

\* agentResults.reduce(...) of execute.
RECURSIVE totalTokenUsage(_)
totalTokenUsage(results) ==
  IF Len(results) = 0
  THEN [inputTokens |-> 0, outputTokens |-> 0, totalTokens |-> 0, estimatedCost |-> 0]
  ELSE LET acc == totalTokenUsage(SubSeq(results, 1, Len(results) - 1))
           agent == results[Len(results)]
       IN [inputTokens |-> acc.inputTokens + agent.tokenUsage.inputTokens,
           outputTokens |-> acc.outputTokens + agent.tokenUsage.outputTokens,
           totalTokens |-> acc.totalTokens + agent.tokenUsage.totalTokens,
           estimatedCost |-> acc.estimatedCost + agent.tokenUsage.estimatedCost]

\* WorkflowOutput whose result is the first intermediate result.
WorkflowOutputFirstResult(cid, writerResult, results, intermediate, totalExecutionTime) ==
  [correlationId |-> cid,
   result |-> intermediate[1].result,
   metadata |-> [workflowName |-> "research-analysis-writer",
                 agents |-> results,
                 totalExecutionTime |-> totalExecutionTime,
                 totalTokenUsage |-> totalTokenUsage(results),
                 totalCost |-> totalTokenUsage(results).estimatedCost],
   intermediateResults |-> intermediate]

\* The WorkflowOutput execute returns.
WorkflowOutput(cid, writerResult, results, intermediate, totalExecutionTime) ==
  [correlationId |-> cid,
   result |-> writerResult.result,
   metadata |-> [workflowName |-> "research-analysis-writer",
                 agents |-> results,
                 totalExecutionTime |-> totalExecutionTime,
                 totalTokenUsage |-> totalTokenUsage(results),
                 totalCost |-> totalTokenUsage(results).estimatedCost],
   intermediateResults |-> intermediate]

\* process is called for the k-th stage at time t and makes its first attempt.
CallStage(k, cid, in, results, t) ==
  /\ wfPc' = Stages[k]
  /\ stageStartTime' = t
  /\ clientPc' = "inFlight"
  /\ attemptNumber' = 1
  /\ failedAttempts' = <<>>
  /\ sent' = Append(sent, WireRequest(k, 1, StageRequest(k, cid, in, results)))

\* Execute that starts the research and the analysis stage together.
ExecuteFanOut(in) ==
  /\ wfPc = "idle"
  /\ wfInput' = in
  /\ startTime' = now
  /\ wfCorrelationId' \in ensureCorrelationId(in)
  /\ agentResults' = <<>>
  /\ intermediateResults' = <<>>
  /\ wfPc' = Stages[1]
  /\ stageStartTime' = now
  /\ clientPc' = "inFlight"
  /\ attemptNumber' = 1
  /\ failedAttempts' = <<>>
  /\ sent' = <<WireRequest(1, 1, StageRequest(1, wfCorrelationId', in, <<>>)),
               WireRequest(2, 1, StageRequest(1, wfCorrelationId', in, <<>>))>>
  /\ UNCHANGED <<stageResults, wfOutput, wfThrown, now>>

\* execute up to the first attempt of the research stage.
Execute(in) ==
  /\ wfPc = "idle"
  /\ wfInput' = in
  /\ startTime' = now
  /\ wfCorrelationId' \in ensureCorrelationId(in)
  /\ agentResults' = <<>>
  /\ intermediateResults' = <<>>
  /\ CallStage(1, wfCorrelationId', in, <<>>, now)
  /\ UNCHANGED <<stageResults, wfOutput, wfThrown, now>>

\* The attempt in flight is answered with status 200 and a body that parses:
\* process returns it, execute records the stage and goes on to the next
\* stage, or aggregates and returns after the writer stage.
AttemptSucceeds(resp) ==
  /\ clientPc = "inFlight"
  /\ LET k == StageIndex(wfPc)
         results == Append(stageResults, resp)
     IN /\ stageResults' = results
        /\ \E t \in DateNow :
             /\ now' = t
             /\ agentResults' = Append(agentResults, AgentResult(k, resp, t - stageStartTime))
             /\ intermediateResults' =
                  IF k < 3
                  THEN Append(intermediateResults,
                              [agentName |-> Stages[k], result |-> resp.result])
                  ELSE intermediateResults
             /\ IF k < 3
                THEN /\ CallStage(k + 1, wfCorrelationId, wfInput, results, t)
                     /\ UNCHANGED wfOutput
                ELSE /\ wfOutput' = WorkflowOutput(wfCorrelationId, resp, agentResults',
                                                   intermediateResults', t - startTime)
                     /\ wfPc' = "done"
                     /\ clientPc' = "none"
                     /\ UNCHANGED <<attemptNumber, sent, failedAttempts, stageStartTime>>
  /\ UNCHANGED <<wfInput, wfCorrelationId, wfThrown, startTime>>

\* AttemptFails with a partial-result fallback: when the retries are used up
\* execute returns what it has.
AttemptFailsFallback(failure) ==
  /\ clientPc = "inFlight"
  /\ failedAttempts' = Append(failedAttempts,
                              [agent |-> wfPc, attempt |-> attemptNumber,
                               error |-> AttemptError(failure).message])
  /\ IF attemptNumber <= Retries
     THEN /\ clientPc' = "backoff"
          /\ UNCHANGED <<wfPc, wfOutput, now>>
     ELSE /\ clientPc' = "none"
          /\ wfPc' = "done"
          /\ \E t \in DateNow :
               /\ now' = t
               /\ wfOutput' = [correlationId |-> wfCorrelationId,
                               intermediateResults |-> intermediateResults]
  /\ UNCHANGED <<wfInput, wfCorrelationId, agentResults, intermediateResults,
                 stageResults, stageStartTime, wfThrown, attemptNumber, sent, startTime>>

\* AttemptFails that gives up one attempt early.
AttemptFailsOneEarly(failure) ==
  /\ clientPc = "inFlight"
  /\ failedAttempts' = Append(failedAttempts,
                              [agent |-> wfPc, attempt |-> attemptNumber,
                               error |-> AttemptError(failure).message])
  /\ IF attemptNumber < Retries
     THEN /\ clientPc' = "backoff"
          /\ UNCHANGED <<wfPc, wfThrown, now>>
     ELSE /\ clientPc' = "none"
          /\ wfPc' = "failed"
          /\ \E t \in DateNow :
               /\ now' = t
               /\ wfThrown' = Rethrow(AttemptError(failure), t - startTime)
  /\ UNCHANGED <<wfInput, wfCorrelationId, agentResults, intermediateResults,
                 stageResults, stageStartTime, wfOutput, attemptNumber, sent, startTime>>

\* AttemptFails that records the stage that failed in agentResults, with
\* success = false.
AttemptFailsRecorded(failure) ==
  /\ clientPc = "inFlight"
  /\ failedAttempts' = Append(failedAttempts,
                              [agent |-> wfPc, attempt |-> attemptNumber,
                               error |-> AttemptError(failure).message])
  /\ IF attemptNumber <= Retries
     THEN /\ clientPc' = "backoff"
          /\ UNCHANGED <<wfPc, wfThrown, now, agentResults>>
     ELSE /\ clientPc' = "none"
          /\ wfPc' = "failed"
          /\ \E t \in DateNow :
               /\ now' = t
               /\ wfThrown' = Rethrow(AttemptError(failure), t - startTime)
               /\ agentResults' = Append(agentResults,
                                         [name |-> wfPc,
                                          executionTime |-> t - stageStartTime,
                                          tokenUsage |-> totalTokenUsage(<<>>),
                                          success |-> FALSE])
  /\ UNCHANGED <<wfInput, wfCorrelationId, intermediateResults,
                 stageResults, stageStartTime, wfOutput, attemptNumber, sent, startTime>>

\* The attempt in flight fails: onFailedAttempt is called; p-retry waits for
\* another attempt while retries are left, else process and execute reject.
AttemptFails(failure) ==
  /\ clientPc = "inFlight"
  /\ failedAttempts' = Append(failedAttempts,
                              [agent |-> wfPc, attempt |-> attemptNumber,
                               error |-> AttemptError(failure).message])
  /\ IF attemptNumber <= Retries
     THEN /\ clientPc' = "backoff"
          /\ UNCHANGED <<wfPc, wfThrown, now>>
     ELSE /\ clientPc' = "none"
          /\ wfPc' = "failed"
          /\ \E t \in DateNow :
               /\ now' = t
               /\ wfThrown' = Rethrow(AttemptError(failure), t - startTime)
  /\ UNCHANGED <<wfInput, wfCorrelationId, agentResults, intermediateResults,
                 stageResults, stageStartTime, wfOutput, attemptNumber, sent, startTime>>

\* RetryAttempt that hedges: it sends the next attempt while the one before
\* is still in flight.
RetryAttemptHedged ==
  /\ clientPc = "inFlight"
  /\ attemptNumber <= Retries
  /\ attemptNumber' = attemptNumber + 1
  /\ clientPc' = "inFlight"
  /\ sent' = Append(sent, WireRequest(StageIndex(wfPc), attemptNumber + 1,
                                       sent[Len(sent)].body))
  /\ UNCHANGED <<wfVars, failedAttempts, startTime, now>>

\* The backoff delay ends: p-retry runs the attempt function again.
RetryAttempt ==
  /\ clientPc = "backoff"
  /\ attemptNumber' = attemptNumber + 1
  /\ clientPc' = "inFlight"
  /\ sent' = Append(sent, WireRequest(StageIndex(wfPc), attemptNumber + 1,
                                       sent[Len(sent)].body))
  /\ UNCHANGED <<wfVars, failedAttempts, startTime, now>>

\* How the GET /health request of healthCheck may settle: a response with
\* some status, or a rejection (connection refused, headers timeout).
ProbeOutcomes ==
  {Returned([statusCode |-> 200]), Returned([statusCode |-> 404]),
   Returned([statusCode |-> 503]),
   Threw(Error("connect ECONNREFUSED", "")), Threw(Error("Headers Timeout Error", ""))}

\* healthCheck without its catch block.
healthCheckNoCatch(outcome) ==
  IF outcome.threw THEN Threw(outcome.error)
  ELSE Returned(outcome.value.statusCode = 200)

\* How healthCheck settles for an outcome of its request.
healthCheck(outcome) ==
  IF outcome.threw THEN Returned(FALSE)
  ELSE Returned(outcome.value.statusCode = 200)

\* The healthCheck call of the k-th client, from its request to its return.
HealthCheck(k, outcome) ==
  /\ healthResult[k] = Nothing
  /\ probe' = [probe EXCEPT ![k] = outcome]
  /\ healthResult' = [healthResult EXCEPT ![k] = healthCheck(outcome)]
  /\ UNCHANGED <<wfVars, clientVars, startTime, now, healthReply>>

\* The orchestrator's /health handler: Promise.all of the three healthCheck
\* calls has resolved and the status is returned.
HealthEndpoint ==
  /\ healthReply = Nothing
  /\ \A k \in 1..3 : healthResult[k] # Nothing /\ ~healthResult[k].threw
  /\ LET agentHealth == [k \in 1..3 |-> healthResult[k].value]
     IN healthReply' =
          [status |-> IF \A k \in 1..3 : agentHealth[k] THEN "ok" ELSE "degraded",
           agents |-> [k \in 1..3 |-> IF agentHealth[k] THEN "healthy" ELSE "unhealthy"]]
  /\ UNCHANGED <<wfVars, clientVars, startTime, now, probe, healthResult>>

\* The orchestrator running one workflow execution.
InitOrchestrator ==
  /\ InitAgent
  /\ InitWorkflow
  /\ maxIterations = 0
  /\ now = 0

agentSide == <<agentVars, pc, input, correlationId, output, thrown, loopVars,
               modelCalls, loopUsage, lastTurn, outcomes, setupVars, costVars>>

NextWorkflow ==
  \/ wfPc = "idle" /\ UNCHANGED <<agentSide, healthVars, callVars, turnVars, servingVars, mcpVars, sessionVars, deliveryVars>> /\
       \E in \in WorkflowInputs : Execute(in)
  \/ clientPc = "inFlight" /\ UNCHANGED <<agentSide, healthVars, callVars, turnVars, servingVars, mcpVars, sessionVars, deliveryVars>> /\
       \E resp \in AgentResponses(StageIndex(wfPc), sent[Len(sent)].body) :
         AttemptSucceeds(resp)
  \/ UNCHANGED <<agentSide, healthVars, callVars, turnVars, servingVars, mcpVars, sessionVars, deliveryVars>> /\
       \E failure \in AttemptFailures : AttemptFails(failure)
  \/ RetryAttempt /\ UNCHANGED <<agentSide, healthVars, callVars, turnVars, servingVars, mcpVars, sessionVars, deliveryVars>>

SpecWorkflow == InitOrchestrator /\ [][NextWorkflow]_vars

\* The orchestrator serving one GET /health.
NextHealth ==
  \/ UNCHANGED <<agentSide, callVars, turnVars, servingVars, mcpVars, sessionVars, deliveryVars>> /\
       \E k \in 1..3 : \E outcome \in ProbeOutcomes : HealthCheck(k, outcome)
  \/ HealthEndpoint /\ UNCHANGED <<agentSide, callVars, turnVars, servingVars, mcpVars, sessionVars, deliveryVars>>

SpecHealth == InitOrchestrator /\ [][NextHealth]_vars

\* ------------------------------------- BaseAgent: initialize and a request
\* Tool names a subclass may register and an MCP server may list.
ToolNames == {"search", "summarize"}

\* What registerTools may return and what mcpClient.listTools may return.
ToolLists == UNION {[1..n -> ToolNames] : n \in 0..MaxTools}

\* A JavaScript value of a result: a string, as the tuple of its fragments,
\* or an object, as the tuple of its keys and values.
StringValue(v) == [type |-> "string", value |-> v]
ObjectValue(v) == [type |-> "object", value |-> v]

\* The lines buildPrompt pushes to parts.
Header(text) == [kind |-> "header", value |-> text]
Blank == [kind |-> "blank", value |-> ""]
StageLine(agentName) == [kind |-> "stage", value |-> agentName]
Text(v) == [kind |-> "text", value |-> v]
Json(v) == [kind |-> "json", value |-> v]

\* getSystemPrompt()
SystemPrompt == "You are an agent."

\* typeof prev.result === 'string' ? prev.result : JSON.stringify(prev.result)
ResultLine(result) ==
  IF result.type = "string" THEN Text(result.value) ELSE Json(result.value)

\* The lines of the loop over input.previousResults.
RECURSIVE PreviousLines(_)
PreviousLines(prevs) ==
  IF Len(prevs) = 0 THEN <<>>
  ELSE <<StageLine(Head(prevs).agentName), ResultLine(Head(prevs).result)>>
         \o PreviousLines(Tail(prevs))

\* buildPrompt that puts the query before the context.
buildPromptQueryBeforeContext(in) ==
  <<Header("SYSTEM INSTRUCTIONS:"), Text(<<SystemPrompt>>), Blank>>
    \o (IF "previousResults" \in DOMAIN in /\ Len(in.previousResults) > 0
        THEN <<Header("PREVIOUS AGENT RESULTS:")>>
               \o PreviousLines(in.previousResults) \o <<Blank>>
        ELSE <<>>)
    \o <<Header("USER QUERY:"), Text(<<in.query>>)>>
    \o (IF "context" \in DOMAIN in /\ Len(in.context) > 0
        THEN <<Header("ADDITIONAL CONTEXT:"), Json(in.context), Blank>>
        ELSE <<>>)

\* parts of buildPrompt, before the join.
buildPrompt(in) ==
  <<Header("SYSTEM INSTRUCTIONS:"), Text(<<SystemPrompt>>), Blank>>
    \o (IF "previousResults" \in DOMAIN in /\ Len(in.previousResults) > 0
        THEN <<Header("PREVIOUS AGENT RESULTS:")>>
               \o PreviousLines(in.previousResults) \o <<Blank>>
        ELSE <<>>)
    \o (IF "context" \in DOMAIN in /\ Len(in.context) > 0
        THEN <<Header("ADDITIONAL CONTEXT:"), Json(in.context), Blank>>
        ELSE <<>>)
    \o <<Header("USER QUERY:"), Text(<<in.query>>)>>

\* buildFunctionDeclarations: the local tools, then the MCP tools.
buildFunctionDeclarations ==
  [i \in 1..(Len(tools) + Len(mcpTools)) |->
     IF i <= Len(tools)
     THEN [name |-> tools[i], parameters |-> "tool.parameters"]
     ELSE [name |-> mcpTools[i - Len(tools)], parameters |-> "mcpTool.inputSchema"]]

\* previousResults and context a request may carry.
PreviousResultsInputs ==
  {<<>>,
   <<[agentName |-> "research-agent", result |-> StringValue(<<"findings">>)]>>,
   <<[agentName |-> "research-agent", result |-> StringValue(<<"findings">>)],
     [agentName |-> "analysis-agent", result |-> ObjectValue(<<"insights", "few">>)]>>,
   <<[agentName |-> "analysis-agent", result |-> ObjectValue(<<"insights", "few">>)],
     [agentName |-> "research-agent", result |-> StringValue(<<"findings">>)]>>}

\* context: an object, as the tuple of its keys and values.
ContextInputs == {<<>>, <<"audience", "board">>}

\* The AgentInputs a request is prepared for.
PromptInputs ==
  {[query |-> "q"]}
    \cup {[query |-> "q", previousResults |-> p] : p \in PreviousResultsInputs}
    \cup {[query |-> "q", context |-> c] : c \in ContextInputs}
    \cup {[query |-> "q", previousResults |-> p, context |-> c] :
            p \in PreviousResultsInputs, c \in ContextInputs}

\* Everything but the agent's tools and what a request is prepared with.
besideSetup == <<requests, pc, correlationId, startTime, output, thrown, loopVars,
                 envVars, wfVars, clientVars, healthVars, costVars, callVars, turnVars, servingVars, mcpVars, sessionVars, deliveryVars>>

\* initialize: the MCP server's tools are listed, then registerTools is called.
Initialize(local, remote) ==
  /\ ~initialized
  /\ mcpTools' = remote
  /\ tools' = local
  /\ initialized' = TRUE
  /\ UNCHANGED <<input, prompt, declarations, invoked, besideSetup>>

\* processRequest, from buildPrompt to buildFunctionDeclarations.
PrepareRequest(in) ==
  /\ initialized
  /\ input = Nothing
  /\ input' = in
  /\ prompt' = buildPrompt(in)
  /\ declarations' = buildFunctionDeclarations
  /\ UNCHANGED <<tools, mcpTools, initialized, invoked, besideSetup>>

\* One invokeTool call, from the lookup to its settling.
InvokeTool(name, outcome) ==
  /\ initialized
  /\ invoked = Nothing
  /\ outcome \in invokeTool(name)
  /\ invoked' = [name |-> name, origin |-> ToolOrigin(name), outcome |-> outcome]
  /\ UNCHANGED <<tools, mcpTools, initialized, input, prompt, declarations, besideSetup>>

\* An agent that has been constructed and not yet initialized.
InitSetup ==
  /\ tools = <<>>
  /\ mcpTools = <<>>
  /\ initialized = FALSE
  /\ InitConstructed
  /\ InitWorkflow
  /\ maxIterations = 0
  /\ now = 0

NextSetup ==
  \/ ~initialized /\ \E local \in ToolLists, remote \in ToolLists : Initialize(local, remote)
  \/ \E in \in PromptInputs : PrepareRequest(in)
  \/ \E name \in RequestNames :
       \E outcome \in LocalExecute(name) \cup CallMCPTool(name)
                        \cup {Threw(Error("Tool not found: ", name))} :
         InvokeTool(name, outcome)

SpecSetup == InitSetup /\ [][NextSetup]_vars

\* ------------------------------- the loop, one tool call per model response
\* Everything but the agent and its request.
besideAgent == <<wfVars, clientVars, healthVars, setupVars, costVars, callVars, servingVars, mcpVars, sessionVars, deliveryVars>>

\* The responses the model may give when it asks for at most one tool call
\* per response.
TurnResults == ModelResults(IF CallsIn(messages) < MaxCalls THEN 1 ELSE 0)

\* One request, the model asking for at most one tool call per response; the
\* response of each generateContent call of the loop is kept.
NextTurn ==
  \/ pc = "idle" /\ UNCHANGED <<besideAgent, turnVars>> /\
       \E in \in AgentInputs : StartRequest(in)
  \/ pc = "awaitModel" /\ UNCHANGED besideAgent /\
       \E result \in TurnResults, meta \in UsageMetadata :
         ModelResponds(result, meta) /\ lastResponse' = result
  \/ ModelFails /\ UNCHANGED <<besideAgent, turnVars>>
  \/ pc = "execTools" /\ UNCHANGED <<besideAgent, turnVars>> /\
       \E i \in pending : \E outcome \in invokeTool(calls[i].name) : ToolSettles(i, outcome)
  \/ FanIn /\ UNCHANGED <<besideAgent, turnVars>>
  \/ UNCHANGED <<besideAgent, turnVars>> /\ \E meta \in UsageMetadata : UsageResponds(meta)
  \/ UsageFails /\ UNCHANGED <<besideAgent, turnVars>>

SpecTurn == Init /\ [][NextTurn]_vars

\* ------------------------------------------------ CostTracker on its own
\* The token counts trackUsage is called with: (inputTokens, outputTokens).
UsageSamples == {<<0, 0>>, <<3, 2>>, <<10, 4>>}

\* a / b of two numbers, as a fraction.
Quotient(a, b) == [num |-> a, den |-> b]

\* SumOf that leaves the first sample out.
RECURSIVE SumOfAllButFirst(_, _)
SumOfAllButFirst(reqs, field) ==
  IF Len(reqs) <= 1 THEN 0
  ELSE SumOfAllButFirst(SubSeq(reqs, 1, Len(reqs) - 1), field) + reqs[Len(reqs)][field]

\* this.requests.reduce((sum, r) => sum + r[field], 0)
RECURSIVE SumOf(_, _)
SumOf(reqs, field) ==
  IF Len(reqs) = 0 THEN 0
  ELSE SumOf(SubSeq(reqs, 1, Len(reqs) - 1), field) + reqs[Len(reqs)][field]

\* getMetrics whose averages divide by one more than the number of requests.
getMetricsOffByOne(reqs) ==
  [totalRequests |-> Len(reqs),
   totalInputTokens |-> SumOf(reqs, "inputTokens"),
   totalOutputTokens |-> SumOf(reqs, "outputTokens"),
   totalTokens |-> SumOf(reqs, "totalTokens"),
   totalCost |-> SumOf(reqs, "estimatedCost"),
   averageTokensPerRequest |-> Quotient(SumOf(reqs, "totalTokens"), Len(reqs) + 1),
   averageCostPerRequest |-> Quotient(SumOf(reqs, "estimatedCost"), Len(reqs) + 1)]

\* The CostMetrics getMetrics returns for this.requests = reqs.
getMetrics(reqs) ==
  IF Len(reqs) = 0
  THEN [totalRequests |-> 0,
        totalInputTokens |-> 0,
        totalOutputTokens |-> 0,
        totalTokens |-> 0,
        totalCost |-> 0,
        averageTokensPerRequest |-> Quotient(0, 1),
        averageCostPerRequest |-> Quotient(0, 1)]
  ELSE [totalRequests |-> Len(reqs),
        totalInputTokens |-> SumOf(reqs, "inputTokens"),
        totalOutputTokens |-> SumOf(reqs, "outputTokens"),
        totalTokens |-> SumOf(reqs, "totalTokens"),
        totalCost |-> SumOf(reqs, "estimatedCost"),
        averageTokensPerRequest |-> Quotient(SumOf(reqs, "totalTokens"), Len(reqs)),
        averageCostPerRequest |-> Quotient(SumOf(reqs, "estimatedCost"), Len(reqs))]

\* Everything but the cost tracker.
besideCost == <<tools, mcpTools, requestVars, loopVars, envVars, wfVars, clientVars,
                healthVars, setupVars, callVars, turnVars, servingVars, mcpVars, sessionVars, deliveryVars>>

\* costTracker.trackUsage(inputTokens, outputTokens)
TrackUsage(inputTokens, outputTokens) ==
  /\ Len(requests) < MaxSamples
  /\ requests' = Append(requests, trackUsage(inputTokens, outputTokens))
  /\ lastUsage' = [inputTokens |-> inputTokens, outputTokens |-> outputTokens,
                   returned |-> trackUsage(inputTokens, outputTokens)]
  /\ sinceReset' = Append(sinceReset, <<inputTokens, outputTokens>>)
  /\ UNCHANGED <<metrics, besideCost>>

\* costTracker.getMetrics()
GetMetrics ==
  /\ metrics' = getMetrics(requests)
  /\ UNCHANGED <<requests, lastUsage, sinceReset, besideCost>>

\* costTracker.reset()
Reset ==
  /\ requests' = <<>>
  /\ sinceReset' = <<>>
  /\ UNCHANGED <<metrics, lastUsage, besideCost>>

NextCost ==
  \/ \E sample \in UsageSamples : TrackUsage(sample[1], sample[2])
  \/ GetMetrics
  \/ Reset

\* The CostTracker of an agent, called in any order.
SpecCost == InitOrchestrator /\ [][NextCost]_vars

\* ------------------------------------- one client, concurrent process calls
\* The request body of the c-th concurrent call of process: each caller has
\* its own correlation id.
CallInputs(c) ==
  {[correlationId |-> CorrelationIdString(TRUE, "4", "a", ToString(c)),
    query |-> <<"q">>]}

\* How an attempt of a concurrent call fails. p-retry takes the same decision
\* for every kind of failure (AttemptFails), so only the timeout is drawn.
CallFailures == {"timeout"}

\* Everything but the concurrent calls.
besideCalls == <<agentVars, requestVars, loopVars, envVars, wfVars, clientVars,
                 healthVars, setupVars, costVars, turnVars, servingVars, mcpVars, sessionVars, deliveryVars>>

\* The larger of two numbers.
Larger(a, b) == IF a >= b THEN a ELSE b

\* The greatest attempt number any call has used.
RECURSIVE GreatestAttempt(_)
GreatestAttempt(c) ==
  IF c = 0 THEN 0 ELSE Larger(callAttempt[c], GreatestAttempt(c - 1))

\* NextAttemptNumber of a client that counts attempts in a field of the
\* instance.
NextAttemptNumberShared(c) == GreatestAttempt(MaxConcurrent) + 1

\* The number of the attempt p-retry makes next in call c: each pRetry call
\* counts its own attempts.
NextAttemptNumber(c) == callAttempt[c] + 1

\* client.process(in), up to the first attempt's request.
ProcessCall(c, in) ==
  /\ callPc[c] = "idle"
  /\ callPc' = [callPc EXCEPT ![c] = "inFlight"]
  /\ callInput' = [callInput EXCEPT ![c] = in]
  /\ callAttempt' = [callAttempt EXCEPT ![c] = 1]
  /\ callSent' = [callSent EXCEPT ![c] = <<WireRequest(1, 1, in)>>]
  /\ callFailed' = [callFailed EXCEPT ![c] = <<>>]
  /\ UNCHANGED <<callResult, besideCalls>>

\* The attempt in flight of call c is answered with status 200 and a body
\* that parses: process returns it.
CallAttemptSucceeds(c, resp) ==
  /\ callPc[c] = "inFlight"
  /\ callResult' = [callResult EXCEPT ![c] = resp]
  /\ callPc' = [callPc EXCEPT ![c] = "returned"]
  /\ UNCHANGED <<callInput, callAttempt, callSent, callFailed, besideCalls>>

\* The attempt in flight of call c fails: onFailedAttempt is called; p-retry
\* waits for another attempt while retries are left, else process rejects.
CallAttemptFails(c, failure) ==
  /\ callPc[c] = "inFlight"
  /\ callFailed' = [callFailed EXCEPT ![c] =
                      Append(@, [agent |-> Stages[1], attempt |-> callAttempt[c],
                                 error |-> AttemptError(failure).message])]
  /\ callPc' = [callPc EXCEPT ![c] =
                  IF callAttempt[c] <= Retries THEN "backoff" ELSE "threw"]
  /\ UNCHANGED <<callInput, callAttempt, callSent, callResult, besideCalls>>

\* The backoff delay of call c ends: p-retry runs its attempt function again.
CallRetry(c) ==
  /\ callPc[c] = "backoff"
  /\ callAttempt' = [callAttempt EXCEPT ![c] = NextAttemptNumber(c)]
  /\ callPc' = [callPc EXCEPT ![c] = "inFlight"]
  /\ callSent' = [callSent EXCEPT ![c] =
                    Append(@, WireRequest(1, NextAttemptNumber(c), callInput[c]))]
  /\ UNCHANGED <<callInput, callFailed, callResult, besideCalls>>

NextClient ==
  \/ \E c \in Calls : \E in \in CallInputs(c) : ProcessCall(c, in)
  \/ \E c \in Calls : callPc[c] = "inFlight" /\
       \E resp \in AgentResponses(1, callInput[c]) : CallAttemptSucceeds(c, resp)
  \/ \E c \in Calls : \E failure \in CallFailures : CallAttemptFails(c, failure)
  \/ \E c \in Calls : CallRetry(c)

\* One ResearchClient whose process is called by concurrent requests.
SpecClient == InitOrchestrator /\ [][NextClient]_vars

\* --------------------------- concurrent processRequest calls on one agent
\* Everything but the requests being served and the cost tracker's samples.
besideServing == <<tools, mcpTools, requestVars, loopVars, envVars, wfVars, clientVars,
                   healthVars, setupVars, costVars, callVars, turnVars, mcpVars, sessionVars, deliveryVars>>

\* Requests that have not ended.
InService == {r \in Calls : reqPc[r] \in {"loop", "awaitUsage"}}

\* processRequest is called: it enters executeFunctionCallingLoop. At most
\* MaxSamples samples are held or on their way.
ServeStart(r) ==
  /\ reqPc[r] \in {"idle", "returned", "threw"}
  /\ Len(requests) + Cardinality(InService) < MaxSamples
  /\ reqPc' = [reqPc EXCEPT ![r] = "loop"]
  /\ reqModelCalls' = [reqModelCalls EXCEPT ![r] = 0]
  /\ UNCHANGED <<requests, returnedSinceReset, besideServing>>

\* ServeModelResponds that tracks the usage of every model call of the loop.
ServeModelRespondsTracked(r, final, meta) ==
  /\ reqPc[r] = "loop"
  /\ reqModelCalls[r] < MaxIter
  /\ reqModelCalls' = [reqModelCalls EXCEPT ![r] = @ + 1]
  /\ reqPc' = [reqPc EXCEPT ![r] = IF final THEN "awaitUsage" ELSE "loop"]
  /\ requests' = Append(requests, trackUsage(GeminiTokenUsage(meta).promptTokenCount,
                                              GeminiTokenUsage(meta).candidatesTokenCount))
  /\ UNCHANGED <<returnedSinceReset, besideServing>>

\* A generateContent call of the loop of request r resolves: with tool calls
\* (the loop executes them and goes on) or with the final answer (the loop
\* returns, and processRequest makes its own generateContent call).
ServeModelResponds(r, final, meta) ==
  /\ reqPc[r] = "loop"
  /\ reqModelCalls[r] < MaxIter
  /\ reqModelCalls' = [reqModelCalls EXCEPT ![r] = @ + 1]
  /\ reqPc' = [reqPc EXCEPT ![r] = IF final THEN "awaitUsage" ELSE "loop"]
  /\ UNCHANGED <<requests, returnedSinceReset, besideServing>>

\* The loop of request r throws (a model call rejects, a response is
\* malformed, the iterations are used up): processRequest rethrows.
ServeLoopFails(r) ==
  /\ reqPc[r] = "loop"
  /\ reqPc' = [reqPc EXCEPT ![r] = "threw"]
  /\ UNCHANGED <<requests, reqModelCalls, returnedSinceReset, besideServing>>

\* processRequest's generateContent call after the loop resolves: its usage
\* is tracked and the response returned.
ServeUsageResponds(r, meta) ==
  /\ reqPc[r] = "awaitUsage"
  /\ requests' = Append(requests, trackUsage(GeminiTokenUsage(meta).promptTokenCount,
                                              GeminiTokenUsage(meta).candidatesTokenCount))
  /\ returnedSinceReset' = returnedSinceReset + 1
  /\ reqPc' = [reqPc EXCEPT ![r] = "returned"]
  /\ UNCHANGED <<reqModelCalls, besideServing>>

\* processRequest's generateContent call after the loop rejects.
ServeUsageFails(r) ==
  /\ reqPc[r] = "awaitUsage"
  /\ reqPc' = [reqPc EXCEPT ![r] = "threw"]
  /\ UNCHANGED <<requests, reqModelCalls, returnedSinceReset, besideServing>>

\* costTracker.reset() while requests are being served.
ResetTracker ==
  /\ requests' = <<>>
  /\ returnedSinceReset' = 0
  /\ UNCHANGED <<reqPc, reqModelCalls, besideServing>>

NextServing ==
  \/ \E r \in Calls : ServeStart(r)
  \/ \E r \in Calls : \E final \in BOOLEAN : \E meta \in UsageMetadata :
       ServeModelResponds(r, final, meta)
  \/ \E r \in Calls : ServeLoopFails(r)
  \/ \E r \in Calls : \E meta \in UsageMetadata : ServeUsageResponds(r, meta)
  \/ \E r \in Calls : ServeUsageFails(r)
  \/ ResetTracker

\* One agent serving concurrent requests, its cost tracker reset at any time.
SpecServing == Init /\ [][NextServing]_vars

\* ------------------------------------------------------------- MCPClient
\* Everything but the MCPClient.
besideMCP == <<agentVars, requestVars, loopVars, envVars, wfVars, clientVars,
               healthVars, setupVars, costVars, callVars, turnVars, servingVars, sessionVars, deliveryVars>>

NotConnectedError == Error("Not connected to MCP server", "")
ConnectError == Error("Failed to connect to MCP server: ", "refused")
ServerError == Error("MCP server error", "")

\* How a call ended: whether it threw, with what, whether it sent anything
\* to the server, and which way through the method it took.
Settled(op, threw, error, contacted, note) ==
  [op |-> op, threw |-> threw, error |-> error.message, contacted |-> contacted,
   note |-> note]
NoError == Error("", "")

\* connect() up to its await: returns at once when connected, else creates a
\* transport and a Client and awaits client.connect(transport).
ConnectStart(c) ==
  /\ connPc[c] = "idle"
  /\ IF connected
     THEN /\ mcpOutcome' = Settled("connect", FALSE, NoError, FALSE, "already connected")
          /\ UNCHANGED <<connected, client, transport, made, opened, connPc, awaited>>
     ELSE /\ made < MaxMade
          /\ made' = made + 1
          /\ transport' = [id |-> made + 1]
          /\ client' = [id |-> made + 1]
          /\ connPc' = [connPc EXCEPT ![c] = "connecting"]
          /\ awaited' = [awaited EXCEPT ![c] = [id |-> made + 1]]
          /\ UNCHANGED <<connected, opened, mcpOutcome>>
  /\ UNCHANGED besideMCP

\* ConnectSettles that sets connected whether or not the server was reached.
ConnectSettlesOptimistic(c, ok) ==
  /\ connPc[c] = "connecting"
  /\ connPc' = [connPc EXCEPT ![c] = "idle"]
  /\ awaited' = [awaited EXCEPT ![c] = Nothing]
  /\ connected' = TRUE
  /\ opened' = IF ok THEN opened \cup {awaited[c]} ELSE opened
  /\ mcpOutcome' = IF ok THEN Settled("connect", FALSE, NoError, TRUE, "connected")
                   ELSE Settled("connect", TRUE, ConnectError, TRUE, "connect failed")
  /\ UNCHANGED <<client, transport, made, besideMCP>>

\* client.connect(transport) settles: connect sets connected, or throws
\* 'Failed to connect to MCP server'.
ConnectSettles(c, ok) ==
  /\ connPc[c] = "connecting"
  /\ connPc' = [connPc EXCEPT ![c] = "idle"]
  /\ awaited' = [awaited EXCEPT ![c] = Nothing]
  /\ IF ok
     THEN /\ connected' = TRUE
          /\ opened' = opened \cup {awaited[c]}
          /\ mcpOutcome' = Settled("connect", FALSE, NoError, TRUE, "connected")
     ELSE /\ mcpOutcome' = Settled("connect", TRUE, ConnectError, TRUE, "connect failed")
          /\ UNCHANGED <<connected, opened>>
  /\ UNCHANGED <<client, transport, made, besideMCP>>

\* disconnect() up to its await: returns at once when not connected, else
\* awaits client.close().
DisconnectStart(c) ==
  /\ connPc[c] = "idle"
  /\ IF ~connected
     THEN /\ mcpOutcome' = Settled("disconnect", FALSE, NoError, FALSE, "not connected")
          /\ UNCHANGED <<connected, client, transport, made, opened, connPc, awaited>>
     ELSE IF client # Nothing
     THEN /\ connPc' = [connPc EXCEPT ![c] = "closing"]
          /\ awaited' = [awaited EXCEPT ![c] = client]
          /\ UNCHANGED <<connected, client, transport, made, opened, mcpOutcome>>
     ELSE /\ connected' = FALSE
          /\ client' = Nothing
          /\ transport' = Nothing
          /\ made' = 0
          /\ opened' = {}
          /\ mcpOutcome' = Settled("disconnect", FALSE, NoError, FALSE, "disconnected")
          /\ UNCHANGED <<connPc, awaited>>
  /\ UNCHANGED besideMCP

\* client.close() settles: disconnect clears the three fields, or logs the
\* error and returns.
DisconnectSettles(c, ok) ==
  /\ connPc[c] = "closing"
  /\ connPc' = [connPc EXCEPT ![c] = "idle"]
  /\ awaited' = [awaited EXCEPT ![c] = Nothing]
  /\ IF ok
     THEN /\ connected' = FALSE
          /\ client' = Nothing
          /\ transport' = Nothing
          /\ made' = 0
          /\ opened' = {}
          /\ mcpOutcome' = Settled("disconnect", FALSE, NoError, TRUE, "disconnected")
     ELSE /\ mcpOutcome' = Settled("disconnect", FALSE, NoError, TRUE, "close failed")
          /\ UNCHANGED <<connected, client, transport, made, opened>>
  /\ UNCHANGED besideMCP

\* listTools(), from its guard to its return or throw.
ListTools(c, ok) ==
  /\ connPc[c] = "idle"
  /\ mcpOutcome' =
       IF ~connected \/ client = Nothing
       THEN Settled("listTools", TRUE, NotConnectedError, FALSE, "not connected")
       ELSE IF ok THEN Settled("listTools", FALSE, NoError, TRUE, "listed")
       ELSE Settled("listTools", TRUE, ServerError, TRUE, "server failed")
  /\ UNCHANGED <<connected, client, transport, made, opened, connPc, awaited, besideMCP>>

\* callTool(request), from its guard to its return or throw.
CallTool(c, ok) ==
  /\ connPc[c] = "idle"
  /\ mcpOutcome' =
       IF ~connected \/ client = Nothing
       THEN Settled("callTool", TRUE, NotConnectedError, FALSE, "not connected")
       ELSE IF ok THEN Settled("callTool", FALSE, NoError, TRUE, "called")
       ELSE Settled("callTool", TRUE, ServerError, TRUE, "server failed")
  /\ UNCHANGED <<connected, client, transport, made, opened, connPc, awaited, besideMCP>>

\* No call on the client is in progress.
AllIdle == \A c \in Calls : connPc[c] = "idle"

\* The calls on one MCPClient made one after the other.
NextMCP ==
  \/ AllIdle /\ \E c \in Calls : ConnectStart(c)
  \/ \E c \in Calls : \E ok \in BOOLEAN : ConnectSettles(c, ok)
  \/ AllIdle /\ \E c \in Calls : DisconnectStart(c)
  \/ \E c \in Calls : \E ok \in BOOLEAN : DisconnectSettles(c, ok)
  \/ AllIdle /\ \E c \in Calls : \E ok \in BOOLEAN : ListTools(c, ok)
  \/ AllIdle /\ \E c \in Calls : \E ok \in BOOLEAN : CallTool(c, ok)

SpecMCP == InitOrchestrator /\ [][NextMCP]_vars

\* The calls on one MCPClient made while other calls are awaiting.
NextMCPConcurrent ==
  \/ \E c \in Calls : ConnectStart(c)
  \/ \E c \in Calls : \E ok \in BOOLEAN : ConnectSettles(c, ok)
  \/ \E c \in Calls : DisconnectStart(c)
  \/ \E c \in Calls : \E ok \in BOOLEAN : DisconnectSettles(c, ok)
  \/ \E c \in Calls : \E ok \in BOOLEAN : ListTools(c, ok)
  \/ \E c \in Calls : \E ok \in BOOLEAN : CallTool(c, ok)

SpecMCPConcurrent == InitOrchestrator /\ [][NextMCPConcurrent]_vars

\* ------------------------------------ web-search MCP server: /mcp sessions
\* Everything but the MCP server.
besideSessions == <<agentVars, requestVars, loopVars, envVars, wfVars, clientVars,
                    healthVars, setupVars, costVars, callVars, turnVars, servingVars,
                    mcpVars, deliveryVars>>

\* The mcp-session-id header of a request: absent, or an id, issued or not.
SessionHeaders == {Nothing} \cup {[id |-> i] : i \in 1..(MaxSessions + 1)}

\* sessions.get(sessionId) is defined.
Stored(header) == "id" \in DOMAIN header /\ header.id \in DOMAIN sessions

\* The StreamableHTTPServerTransport whose sessionId is id.
Transport(id) == [sessionId |-> id]

\* sessions after sessions.set(id, ...) and after sessions.delete(id).
SetSession(id) == [i \in DOMAIN sessions \cup {id} |->
                     IF i = id THEN Transport(id) ELSE sessions[i]]
DeleteSession(id) == [i \in DOMAIN sessions \ {id} |-> sessions[i]]

\* What a request was answered with: a status of the handler, or (status 0)
\* whatever the transport it was forwarded to wrote.
Reply(method, header, status, to) ==
  [method |-> method, header |-> header, status |-> status, to |-> to]

\* Post that opens a session under an id it does not know.
PostAdoptsUnknownId(header, initialize) ==
  /\ IF Stored(header)
     THEN /\ reply' = Reply("POST", header, 0, sessions[header.id])
          /\ UNCHANGED <<sessions, issued>>
     ELSE IF "id" \in DOMAIN header
     THEN /\ sessions' = SetSession(header.id)
          /\ reply' = Reply("POST", header, 0, Transport(header.id))
          /\ UNCHANGED issued
     ELSE IF initialize
     THEN /\ issued < MaxSessions
          /\ issued' = issued + 1
          /\ sessions' = SetSession(issued + 1)
          /\ reply' = Reply("POST", header, 0, Transport(issued + 1))
     ELSE /\ reply' = Reply("POST", header, 0, Nothing)
          /\ UNCHANGED <<sessions, issued>>
  /\ UNCHANGED <<closed, besideSessions>>

\* POST /mcp. A request without a session header goes to a new transport,
\* which generates a session id when the request is an initialize request.
Post(header, initialize) ==
  /\ IF Stored(header)
     THEN /\ reply' = Reply("POST", header, 0, sessions[header.id])
          /\ UNCHANGED <<sessions, issued>>
     ELSE IF "id" \in DOMAIN header
     THEN /\ reply' = Reply("POST", header, 404, Nothing)
          /\ UNCHANGED <<sessions, issued>>
     ELSE IF initialize
     THEN /\ issued < MaxSessions
          /\ issued' = issued + 1
          /\ sessions' = SetSession(issued + 1)
          /\ reply' = Reply("POST", header, 0, Transport(issued + 1))
     ELSE /\ reply' = Reply("POST", header, 0, Nothing)
          /\ UNCHANGED <<sessions, issued>>
  /\ UNCHANGED <<closed, besideSessions>>

\* GET /mcp
Get(header) ==
  /\ reply' = IF Stored(header) THEN Reply("GET", header, 0, sessions[header.id])
              ELSE Reply("GET", header, 400, Nothing)
  /\ UNCHANGED <<sessions, issued, closed, besideSessions>>

\* DELETE /mcp. transport.close() calls onclose, which deletes the session,
\* before the handler deletes it; when close throws the handler rejects.
Delete(header, ok) ==
  /\ IF ~Stored(header)
     THEN /\ reply' = Reply("DELETE", header, 404, Nothing)
          /\ UNCHANGED <<sessions, closed>>
     ELSE IF ok
     THEN /\ sessions' = DeleteSession(header.id)
          /\ closed' = closed \cup {header.id}
          /\ reply' = Reply("DELETE", header, 200, sessions[header.id])
     ELSE /\ reply' = Reply("DELETE", header, 500, sessions[header.id])
          /\ UNCHANGED <<sessions, closed>>
  /\ UNCHANGED <<issued, besideSessions>>

\* The transport of a stored session closes: its onclose deletes the session.
TransportCloses(id) ==
  /\ id \in DOMAIN sessions
  /\ sessions' = DeleteSession(id)
  /\ closed' = closed \cup {id}
  /\ UNCHANGED <<issued, reply, besideSessions>>

NextSessions ==
  \/ \E header \in SessionHeaders : \E initialize \in BOOLEAN : Post(header, initialize)
  \/ \E header \in SessionHeaders : Get(header)
  \/ \E header \in SessionHeaders : \E ok \in BOOLEAN : Delete(header, ok)
  \/ \E id \in 1..MaxSessions : TransportCloses(id)

\* The MCP server answering /mcp requests one after the other.
SpecSessions == InitOrchestrator /\ [][NextSessions]_vars

\* ------------------------- the agents' servers behind one workflow execution
\* Everything but the workflow, its client and the agents answering it.
besideDelivery == <<agentSide, healthVars, callVars, turnVars, servingVars, mcpVars,
                    sessionVars>>

\* The input of the execution whose requests are followed to the agents.
DeliveryInputs == {[query |-> "q"]}

\* What the agent of stage k answers in this execution.
DeliveryResponses(k, body) == {r \in AgentResponses(k, body) : r.result.text = "short"}

\* The POST handler of the agent of stage k runs processRequest for a request
\* body, which tracks the usage it returns.
Handled(k, resp) ==
  /\ runs' = [runs EXCEPT ![k] = @ + 1]
  /\ agentTracked' = [agentTracked EXCEPT ![k] = @ + resp.metadata.tokenUsage.totalTokens]

\* execute is called.
DeliveryExecute(in) ==
  /\ Execute(in)
  /\ UNCHANGED <<deliveryVars, besideDelivery>>

\* The agent's server handles the attempt in flight: processRequest runs and
\* the 200 response is on its way.
AgentProcesses(resp) ==
  /\ clientPc = "inFlight"
  /\ served = Nothing
  /\ Handled(StageIndex(wfPc), resp)
  /\ served' = resp
  /\ UNCHANGED <<late, wfVars, clientVars, startTime, now, besideDelivery>>

\* The agent's server finishes a request whose attempt the client has given
\* up: the handler still runs processRequest; nobody reads the response.
AgentProcessesLate(k, resp) ==
  /\ late[k] > 0
  /\ late' = [late EXCEPT ![k] = @ - 1]
  /\ Handled(k, resp)
  /\ UNCHANGED <<served, wfVars, clientVars, startTime, now, besideDelivery>>

\* The response reaches the client before its timeouts.
ResponseArrives ==
  /\ served # Nothing
  /\ AttemptSucceeds(served)
  /\ served' = Nothing
  /\ UNCHANGED <<runs, agentTracked, late, besideDelivery>>

\* headersTimeout or bodyTimeout ends the attempt in flight; a request the
\* agent has not finished stays with the agent (up to MaxLate requests are
\* followed there; a further one counts as never having reached the agent).
AttemptTimesOut ==
  /\ clientPc = "inFlight"
  /\ AttemptFails("timeout")
  /\ late' = IF served = Nothing /\ late[1] + late[2] + late[3] < MaxLate
             THEN [late EXCEPT ![StageIndex(wfPc)] = @ + 1]
             ELSE late
  /\ served' = Nothing
  /\ UNCHANGED <<runs, agentTracked, besideDelivery>>

\* p-retry sends the same body again.
DeliveryRetry ==
  /\ RetryAttempt
  /\ UNCHANGED <<deliveryVars, besideDelivery>>

NextDelivery ==
  \/ \E in \in DeliveryInputs : DeliveryExecute(in)
  \/ clientPc = "inFlight" /\
       \E resp \in DeliveryResponses(StageIndex(wfPc), sent[Len(sent)].body) :
         AgentProcesses(resp)
  \/ \E k \in 1..3 : late[k] > 0 /\
       \E resp \in DeliveryResponses(k, sent[CHOOSE i \in 1..Len(sent) : sent[i].agent = Stages[k]].body) :
         AgentProcessesLate(k, resp)
  \/ ResponseArrives
  \/ AttemptTimesOut
  \/ DeliveryRetry

\* One workflow execution, its client's attempts and the agents' servers.
SpecDelivery == InitOrchestrator /\ [][NextDelivery]_vars

\* ================================================================ claims
\* Turns of this run in which the model requested tool calls and whose batch
\* has been appended to the conversation.
BatchTurns == IF Len(messages) = 0 THEN 0 ELSE (Len(messages) - 1) \div 2

IsErrorEntry(resp) == "error" \in DOMAIN resp.response.content

\* C1: with maxIterations = M >= 1, a returned result has
\* 1 <= totalIterations <= M; and once the model has requested tool calls in
\* each of its first M turns the run has ended with the 'exceeded maximum
\* iterations' error, without an answer and without an (M+1)-th model call.
C1_IterationBudget ==
  maxIterations >= 1 =>
    /\ loopResult # Nothing =>
         /\ 1 <= loopResult.totalIterations
         /\ loopResult.totalIterations <= maxIterations
    /\ pc = "returned" =>
         /\ 1 <= output.metadata.iterations
         /\ output.metadata.iterations <= maxIterations
    /\ BatchTurns = maxIterations =>
         /\ pc = "threw"
         /\ thrown = ExceededError
         /\ loopResult = Nothing
         /\ output = Nothing
         /\ modelCalls = maxIterations
    /\ pc \in {"awaitModel", "execTools"} => modelCalls <= maxIterations

C1_Witness ==
  /\ maxIterations = 2
  /\ BatchTurns = 2
  /\ pc = "threw"
  /\ thrown = ExceededError

\* C2: a run that ends because a model response held neither tool calls nor
\* text ends with the 'terminated without final answer' error, at every
\* iteration up to maxIterations; the 'exceeded maximum iterations' error is
\* raised only when the model requested tool calls in all maxIterations turns.
C2_DistinctErrors ==
  pc = "threw" =>
    /\ lastTurn = "malformed" => thrown = TerminatedError
    /\ thrown = ExceededError => BatchTurns = maxIterations

\* C3: a failed tool call (the local executor throws, the name is in neither
\* tool set, the MCP server answers isError) becomes an error entry of the
\* batch's results; the loop does not end because of it, and its next step is
\* another model call unless the iteration budget is used up.
C3_FailuresAreData ==
  /\ [](pc = "execTools" =>
          \A i \in (1..Len(calls)) \ pending :
            /\ outcomes[i].threw => /\ IsErrorEntry(functionResponses[i])
                                    /\ thrown = Nothing
            /\ (~Has(tools, calls[i].name) /\ ~Has(mcpTools, calls[i].name)) =>
                 /\ IsErrorEntry(functionResponses[i])
                 /\ functionResponses[i].response.content.error
                      = <<"Tool not found: ", calls[i].name>>)
  /\ [][(pc = "execTools" /\ \E i \in (1..Len(calls)) \ pending : outcomes[i].threw) =>
          \/ pc' = "execTools" /\ thrown' = Nothing
          \/ /\ iteration < maxIterations
             /\ pc' = "awaitModel"
             /\ modelCalls' = modelCalls + 1
             /\ thrown' = Nothing
             /\ \E i \in 1..Len(calls) :
                  IsErrorEntry(messages'[Len(messages')].parts[i].functionResponse)
          \/ /\ iteration >= maxIterations
             /\ pc' = "threw"
             /\ thrown' = ExceededError]_vars

\* A batch of a call to an unknown name and a call the MCP server answered
\* with isError has been appended, and the loop is at its second model call.
C3_Witness ==
  /\ pc = "awaitModel"
  /\ iteration = 2
  /\ modelCalls = 2
  /\ \E i \in 1..Len(calls) : outcomes[i].threw /\ calls[i].name = "ghost"
  /\ \E i \in 1..Len(calls) :
       /\ calls[i].name = "summarize"
       /\ outcomes[i] = Threw(Error("MCP tool returned error: ", "summarize"))
  /\ \A i \in 1..Len(calls) :
       IsErrorEntry(messages[Len(messages)].parts[i].functionResponse)

\* The k-th batch of the conversation: its model-role message and the message
\* that follows it.
BatchCalls(k) == messages[2 * k]
BatchResults(k) == messages[2 * k + 1]

\* C4: every batch of n calls is in the conversation as exactly one model-role
\* message holding the n calls, directly followed by exactly one message
\* holding n results, the i-th result named as the i-th call and an error
\* entry exactly when the i-th call failed, whatever the completion order.
C4_PairedBatchMessages ==
  /\ pc # "idle" =>
       /\ Len(messages) = 1 + 2 * BatchTurns
       /\ BatchTurns = (IF pc = "threw" /\ lastTurn = "calls" THEN iteration
                        ELSE IF iteration = 0 THEN 0 ELSE iteration - 1)
       /\ \A k \in 1..BatchTurns :
            /\ BatchCalls(k).role = "model"
            /\ BatchResults(k).role = "user"
            /\ Len(BatchCalls(k).parts) >= 1
            /\ Len(BatchResults(k).parts) = Len(BatchCalls(k).parts)
            /\ \A i \in 1..Len(BatchCalls(k).parts) :
                 /\ DOMAIN BatchCalls(k).parts[i] = {"functionCall"}
                 /\ DOMAIN BatchResults(k).parts[i] = {"functionResponse"}
                 /\ BatchResults(k).parts[i].functionResponse.name
                      = BatchCalls(k).parts[i].functionCall.name
  /\ (lastTurn = "calls" /\ pc # "execTools") =>
       /\ BatchTurns >= 1
       /\ Len(BatchCalls(BatchTurns).parts) = Len(calls)
       /\ \A i \in 1..Len(calls) :
            /\ BatchCalls(BatchTurns).parts[i].functionCall = calls[i]
            /\ IsErrorEntry(BatchResults(BatchTurns).parts[i].functionResponse)
                 <=> outcomes[i].threw

\* The model asked for [search, summarize]; summarize settled first and
\* succeeded, search settled last and failed; the batch has been appended.
C4_Witness ==
  /\ lastTurn = "calls"
  /\ pc = "awaitModel"
  /\ Len(calls) = 2
  /\ calls[1].name = "search" /\ outcomes[1].threw
  /\ calls[2].name = "summarize" /\ ~outcomes[2].threw
  /\ Len(functionCalls) = 1

\* C5: while a call of the current batch is pending, no message is appended
\* and no model call is issued.
C5_FanInWaitsForAll ==
  [][(pc = "execTools" /\ pending # {}) =>
       /\ messages' = messages
       /\ modelCalls' = modelCalls
       /\ iteration' = iteration
       /\ pc' = "execTools"]_vars

\* One call of a batch of two has settled, the other is pending.
C5_Witness ==
  /\ pc = "execTools"
  /\ Len(calls) >= 2
  /\ pending # {}
  /\ pending # 1..Len(calls)

\* The names of the calls of the conversation that did not fail, in request
\* order: turn by turn, and within a turn in the order of the batch.
RECURSIVE RequestOrder(_)
RequestOrder(k) ==
  IF k = 0 THEN <<>>
  ELSE LET ok == SelectSeq(BatchResults(k).parts,
                           LAMBDA p : ~IsErrorEntry(p.functionResponse))
       IN RequestOrder(k - 1) \o [i \in 1..Len(ok) |-> ok[i].functionResponse.name]

\* C6: the functionCalls list of a successful run is in request order.
C6_FunctionCallsInRequestOrder ==
  loopResult # Nothing =>
    [i \in 1..Len(loopResult.functionCalls) |-> loopResult.functionCalls[i].name]
      = RequestOrder(BatchTurns)

\* C7: after a successful request whose loop made k model calls the cost
\* tracker holds the usage of each of the k calls and the response's
\* tokenUsage accounts for all of them.
C7_UsageOfEveryModelCall ==
  pc = "returned" =>
    /\ Len(requests) = loopResult.totalIterations
    /\ output.metadata.tokenUsage.inputTokens = loopUsage.promptTokenCount
    /\ output.metadata.tokenUsage.outputTokens = loopUsage.candidatesTokenCount

\* C8: a successful request made as many generateContent calls as the
\* totalIterations it reports, so at most maxIterations.
C8_NoModelCallOutsideLoop ==
  pc = "returned" =>
    /\ modelCalls = output.metadata.iterations
    /\ modelCalls <= maxIterations

\* C9: when the loop ends with an unrecoverable error, processRequest returns
\* no response and the error the caller receives carries the request's
\* correlationId and the elapsed time.
C9_ErrorCarriesContext ==
  pc = "threw" =>
    /\ output = Nothing
    /\ "correlationId" \in DOMAIN thrown
    /\ "executionTime" \in DOMAIN thrown

\* C10: in every execution of the workflow the correlationId is fixed before
\* the first stage; every request sent, every retry attempt included, carries
\* it, and so does the WorkflowOutput; it is the input's correlationId
\* whenever that one is UUID-v4-shaped.
C10_CorrelationIdThreaded ==
  wfPc # "idle" =>
    /\ \A i \in 1..Len(sent) : sent[i].body.correlationId = wfCorrelationId
    /\ Len(sent) >= 1
    /\ wfPc = "done" => wfOutput.correlationId = wfCorrelationId
    /\ ("correlationId" \in DOMAIN wfInput /\ isValidCorrelationId(wfInput.correlationId))
         => wfCorrelationId = wfInput.correlationId

\* An execution with a supplied v4 id has ended after all three stages, one
\* of which needed a retry.
C10_Witness ==
  /\ wfPc = "done"
  /\ "correlationId" \in DOMAIN wfInput
  /\ wfOutput.correlationId = wfInput.correlationId
  /\ {sent[i].agent : i \in 1..Len(sent)} = {Stages[k] : k \in 1..3}
  /\ \E i \in 1..Len(sent) : sent[i].attempt > 1

\* Whether the record in carries a UUID-v4-shaped correlationId.
SuppliesV4(in) ==
  "correlationId" \in DOMAIN in /\ isValidCorrelationId(in.correlationId)

\* C11: processRequest and execute keep a supplied UUID-v4-shaped
\* correlationId unchanged; a missing one, or one that is not v4-shaped (a
\* UUID of another version included), is replaced by a generated v4-shaped id,
\* and the output carries the id so chosen.
C11_EnsureCorrelationId ==
  /\ pc # "idle" =>
       /\ SuppliesV4(input) => correlationId = input.correlationId
       /\ ~SuppliesV4(input) =>
            /\ isValidCorrelationId(correlationId)
            /\ "correlationId" \in DOMAIN input => correlationId # input.correlationId
       /\ pc = "returned" => output.correlationId = correlationId
  /\ wfPc # "idle" =>
       /\ SuppliesV4(wfInput) => wfCorrelationId = wfInput.correlationId
       /\ ~SuppliesV4(wfInput) =>
            /\ isValidCorrelationId(wfCorrelationId)
            /\ "correlationId" \in DOMAIN wfInput
                 => wfCorrelationId # wfInput.correlationId
       /\ wfPc = "done" => wfOutput.correlationId = wfCorrelationId

\* A request that supplied a version-1 UUID has been answered under a
\* generated id.
C11_Witness ==
  /\ pc = "returned"
  /\ "correlationId" \in DOMAIN input
  /\ input.correlationId.layout
  /\ input.correlationId.version = "1"
  /\ output.correlationId # input.correlationId
  /\ isValidCorrelationId(output.correlationId)

\* C12: the requests of an execution are sent stage by stage in the order
\* research, analysis, writer; a request of stage N+1 exists only once stage N
\* has returned a response; the request in flight is one of the stage in
\* progress, and no request is in flight while p-retry waits or after the end.
C12_StagesSequential ==
  /\ Len(sent) >= 1 => sent[1].agent = Stages[1]
  /\ \A i \in 1..Len(sent) :
       /\ StageIndex(sent[i].agent) - 1 <= Len(stageResults)
       /\ i < Len(sent) =>
            /\ StageIndex(sent[i].agent) <= StageIndex(sent[i + 1].agent)
            /\ StageIndex(sent[i + 1].agent) <= StageIndex(sent[i].agent) + 1
  /\ clientPc = "inFlight" =>
       /\ wfPc = sent[Len(sent)].agent
       /\ StageIndex(wfPc) = Len(stageResults) + 1
  /\ wfPc \in {"idle", "done", "failed"} => clientPc = "none"

\* The writer stage's request is in flight after the research stage needed a
\* retry.
C12_Witness ==
  /\ wfPc = Stages[3]
  /\ clientPc = "inFlight"
  /\ Len(stageResults) = 2
  /\ \E i \in 1..Len(sent) : sent[i].agent = Stages[1] /\ sent[i].attempt = 2

\* C13: every request of stage N carries as previousResults the results of
\* stages 1..N-1, in execution order, each the result field of the response
\* that stage returned: none for research, one for analysis, two for writer.
C13_PreviousResults ==
  \A i \in 1..Len(sent) :
    LET k == StageIndex(sent[i].agent)
        body == sent[i].body
    IN /\ k = 1 => "previousResults" \notin DOMAIN body
       /\ k > 1 =>
            /\ "previousResults" \in DOMAIN body
            /\ Len(body.previousResults) = k - 1
            /\ \A j \in 1..(k - 1) :
                 body.previousResults[j]
                   = [agentName |-> Stages[j], result |-> stageResults[j].result]

\* The writer's request, a retry, carries a research result and an analysis
\* result that differ.
C13_Witness ==
  /\ wfPc = Stages[3]
  /\ sent[Len(sent)].attempt = 2
  /\ Len(sent[Len(sent)].body.previousResults) = 2
  /\ stageResults[1].result.text = "short"
  /\ stageResults[2].result.text = "long"

\* The stage whose client is, or was last, at work.
CurrentStage == Len(stageResults) + 1

\* C14: once the client of a stage has used up its retries, execute has
\* failed: there is no WorkflowOutput, and no request of a later stage has
\* been or will be sent.
C14_StageFailureFailsWorkflow ==
  /\ [](/\ Len(failedAttempts) = Retries + 1 => wfPc = "failed"
        /\ wfPc = "failed" =>
             /\ Len(failedAttempts) = Retries + 1
             /\ wfOutput = Nothing
             /\ wfThrown # Nothing
             /\ clientPc = "none"
             /\ \A i \in 1..Len(sent) : StageIndex(sent[i].agent) <= CurrentStage)
  /\ [][wfPc = "failed" => /\ sent' = sent
                           /\ wfOutput' = Nothing
                           /\ wfPc' = "failed"]_vars

\* The analysis stage has used up its retries after research succeeded.
C14_Witness ==
  /\ wfPc = "failed"
  /\ Len(stageResults) = 1
  /\ Len(failedAttempts) = Retries + 1
  /\ sent[Len(sent)].agent = Stages[2]

\* C15: the error execute fails with after a stage used up its retries
\* carries the results of the stages completed before it, the correlationId
\* and the failing stage's name.
C15_StageFailureError ==
  wfPc = "failed" =>
    /\ "results" \in DOMAIN wfThrown
    /\ Len(wfThrown.results) = Len(stageResults)
    /\ "correlationId" \in DOMAIN wfThrown
    /\ "stage" \in DOMAIN wfThrown

\* Whether every failed attempt of the current process call timed out.
AllTimeouts ==
  \A i \in 1..Len(failedAttempts) :
    failedAttempts[i].error = AttemptError("timeout").message

\* The attempts made for the stage named agent.
AttemptsOf(agent) == {i \in 1..Len(sent) : sent[i].agent = agent}

\* C16: process never makes more than retries + 1 attempts; when every
\* attempt times out it makes exactly retries + 1, numbered 1..retries + 1,
\* and then fails with the timeout error of the last attempt.
C16_ExactlyRetriesPlusOne ==
  /\ attemptNumber <= Retries + 1
  /\ \A k \in 1..3 : Cardinality(AttemptsOf(Stages[k])) <= Retries + 1
  /\ clientPc # "none" => Cardinality(AttemptsOf(wfPc)) = attemptNumber
  /\ (AllTimeouts /\ Len(failedAttempts) = Retries + 1) => wfPc = "failed"
  /\ (AllTimeouts /\ wfPc = "failed") =>
       /\ Len(failedAttempts) = Retries + 1
       /\ Cardinality(AttemptsOf(Stages[CurrentStage])) = Retries + 1
       /\ \A n \in 1..(Retries + 1) :
            \E i \in AttemptsOf(Stages[CurrentStage]) : sent[i].attempt = n
       /\ failedAttempts[Retries + 1].attempt = Retries + 1
       /\ wfThrown = AttemptError("timeout")

\* Every attempt of the research stage timed out and execute has failed.
C16_Witness ==
  /\ wfPc = "failed"
  /\ AllTimeouts
  /\ Len(stageResults) = 0
  /\ Len(sent) = Retries + 1
  /\ wfThrown = AttemptError("timeout")

\* C17: an attempt that fails with a non-retryable failure (a 400 response)
\* is the last attempt of its process call: process fails at once and no
\* further request is sent.
C17_NonRetryableFailsImmediately ==
  \A i \in 1..Len(failedAttempts) :
    failedAttempts[i].error = AttemptError("status 400").message =>
      /\ i = 1
      /\ Len(failedAttempts) = 1
      /\ clientPc = "none"
      /\ wfPc = "failed"

\* C18: on success the result of execute is the writer stage's result and
\* metadata.agents lists research-agent, analysis-agent, writer-agent, once
\* each and in this order, each with the tokenUsage its response reported.
C18_FinalResultAndAgents ==
  wfPc = "done" =>
    /\ Len(stageResults) = 3
    /\ wfOutput.result = stageResults[3].result
    /\ wfOutput.result.by = Stages[3]
    /\ Len(wfOutput.metadata.agents) = 3
    /\ \A k \in 1..3 :
         /\ wfOutput.metadata.agents[k].name = Stages[k]
         /\ wfOutput.metadata.agents[k].tokenUsage = stageResults[k].metadata.tokenUsage
         /\ wfOutput.metadata.agents[k].success

\* An execution has succeeded whose writer result differs from the earlier
\* stages' and whose stages reported different usages.
C18_Witness ==
  /\ wfPc = "done"
  /\ stageResults[1].result.text = "short"
  /\ stageResults[2].result.text = "short"
  /\ stageResults[3].result.text = "long"
  /\ wfOutput.metadata.agents[3].tokenUsage # wfOutput.metadata.agents[1].tokenUsage

\* C19: on success metadata.totalTokenUsage is, field by field, the sum of the
\* three stages' usages, metadata.totalCost is its estimatedCost, and its
\* totalTokens is inputTokens + outputTokens (as it is for every stage).
C19_TotalsAreFieldwiseSums ==
  wfPc = "done" =>
    LET u == [k \in 1..3 |-> stageResults[k].metadata.tokenUsage]
        total == wfOutput.metadata.totalTokenUsage
    IN /\ total.inputTokens = u[1].inputTokens + u[2].inputTokens + u[3].inputTokens
       /\ total.outputTokens = u[1].outputTokens + u[2].outputTokens + u[3].outputTokens
       /\ total.totalTokens = u[1].totalTokens + u[2].totalTokens + u[3].totalTokens
       /\ total.estimatedCost
            = u[1].estimatedCost + u[2].estimatedCost + u[3].estimatedCost
       /\ wfOutput.metadata.totalCost = total.estimatedCost
       /\ (\A k \in 1..3 : u[k].totalTokens = u[k].inputTokens + u[k].outputTokens)
            => total.totalTokens = total.inputTokens + total.outputTokens

\* An execution has succeeded whose stages used 3+2, 10+4 and 10+4 tokens.
C19_Witness ==
  /\ wfPc = "done"
  /\ wfOutput.metadata.totalTokenUsage.inputTokens = 23
  /\ wfOutput.metadata.totalTokenUsage.outputTokens = 10
  /\ wfOutput.metadata.totalTokenUsage.totalTokens = 33
  /\ wfOutput.metadata.totalCost = 23 * ProInputPrice + 10 * ProOutputPrice

\* C20: healthCheck never throws: whatever the outcome of its probe it
\* returns a boolean, true exactly when the probe answered with status 200.
C20_HealthCheckNeverThrows ==
  \A k \in 1..3 :
    healthResult[k] # Nothing =>
      /\ ~healthResult[k].threw
      /\ healthResult[k].value \in BOOLEAN
      /\ healthResult[k].value
           <=> (~probe[k].threw /\ probe[k].value.statusCode = 200)

\* The three clients were probed: one answered 200, one answered 503, one
\* timed out; the orchestrator reports itself degraded.
C20_Witness ==
  /\ probe[1] = Returned([statusCode |-> 200]) /\ healthResult[1] = Returned(TRUE)
  /\ probe[2] = Returned([statusCode |-> 503]) /\ healthResult[2] = Returned(FALSE)
  /\ probe[3] = Threw(Error("Headers Timeout Error", ""))
  /\ healthResult[3] = Returned(FALSE)
  /\ healthReply # Nothing
  /\ healthReply.status = "degraded"

\* Whether a request has been prepared: prompt and declarations are built.
Prepared == initialized /\ input # Nothing

\* C23: the function declarations a request is prepared with hold no two
\* declarations of the same name, whatever registerTools returned and the MCP
\* server listed.
C23_UniqueDeclarationNames ==
  Prepared =>
    \A i, j \in 1..Len(declarations) :
      i < j => declarations[i].name # declarations[j].name

\* C24: invokeTool dispatches a name that is a local tool to the local
\* executor, also when the MCP server lists the same name; it calls the MCP
\* server exactly for the names that are no local tool and are listed by the
\* MCP server.
C24_LocalToolWins ==
  invoked # Nothing =>
    /\ Has(tools, invoked.name) =>
         /\ invoked.origin = "local"
         /\ invoked.outcome \in LocalExecute(invoked.name)
    /\ invoked.origin = "remote"
         <=> (~Has(tools, invoked.name) /\ Has(mcpTools, invoked.name))
    /\ invoked.origin = "remote" => invoked.outcome \in CallMCPTool(invoked.name)
    /\ invoked.origin # "remote" => invoked.outcome \notin CallMCPTool(invoked.name)
    /\ invoked.origin = "none" =>
         invoked.outcome = Threw(Error("Tool not found: ", invoked.name))

\* A name that is both a local and a remote tool has been invoked and the
\* local executor ran.
C24_Witness ==
  /\ invoked # Nothing
  /\ Has(tools, invoked.name)
  /\ Has(mcpTools, invoked.name)
  /\ invoked.origin = "local"
  /\ invoked.outcome = Returned([results |-> invoked.name])

\* Whether the i-th line of the prompt is the header text.
IsHeader(i, text) == prompt[i].kind = "header" /\ prompt[i].value = text

\* The lines of the prompt that are the header text.
HeaderAt(text) == {i \in 1..Len(prompt) : IsHeader(i, text)}

\* C28: the prompt holds the system prompt first; then, only for a non-empty
\* previousResults, one labelled section per prior stage in list order; then,
\* only for a context with a key, the ADDITIONAL CONTEXT section with the
\* serialized context; then the query, last. buildPrompt changes nothing of
\* the agent.
C28_PromptSectionOrder ==
  /\ [](Prepared =>
          LET hasPrev == "previousResults" \in DOMAIN input
                           /\ Len(input.previousResults) > 0
              hasCtx == "context" \in DOMAIN input /\ Len(input.context) > 0
              m == IF hasPrev THEN Len(input.previousResults) ELSE 0
              ctxStart == 4 + (IF hasPrev THEN 2 * m + 2 ELSE 0)
              queryStart == ctxStart + (IF hasCtx THEN 3 ELSE 0)
          IN /\ Len(prompt) = queryStart + 1
             /\ IsHeader(1, "SYSTEM INSTRUCTIONS:")
             /\ prompt[2] = Text(<<SystemPrompt>>)
             /\ HeaderAt("USER QUERY:") = {queryStart}
             /\ prompt[queryStart + 1] = Text(<<input.query>>)
             /\ HeaderAt("PREVIOUS AGENT RESULTS:") = (IF hasPrev THEN {4} ELSE {})
             /\ Cardinality({i \in 1..Len(prompt) : prompt[i].kind = "stage"}) = m
             /\ \A j \in 1..m :
                  /\ prompt[3 + 2 * j] = StageLine(input.previousResults[j].agentName)
                  /\ prompt[4 + 2 * j].kind
                       = (IF input.previousResults[j].result.type = "string"
                          THEN "text" ELSE "json")
                  /\ prompt[4 + 2 * j].value = input.previousResults[j].result.value
             /\ HeaderAt("ADDITIONAL CONTEXT:") = (IF hasCtx THEN {ctxStart} ELSE {})
             /\ hasCtx => prompt[ctxStart + 1] = Json(input.context))
  /\ [][prompt' # prompt =>
          /\ tools' = tools
          /\ mcpTools' = mcpTools
          /\ initialized' = initialized
          /\ requests' = requests
          /\ invoked' = invoked
          /\ input' \in PromptInputs]_vars

\* A prompt was built for a request with two prior results, the analysis
\* agent's first, and a context.
C28_Witness ==
  /\ Prepared
  /\ Len(prompt) = 14
  /\ prompt[5] = StageLine("analysis-agent")
  /\ prompt[7] = StageLine("research-agent")
  /\ IsHeader(10, "ADDITIONAL CONTEXT:")
  /\ IsHeader(13, "USER QUERY:")

\* C25: what trackUsage(i, o) returns has inputTokens = i, outputTokens = o,
\* totalTokens = i + o and estimatedCost >= 0, and every sample the tracker
\* holds has totalTokens = inputTokens + outputTokens, whatever calls of
\* trackUsage, getMetrics and reset were made.
C25_TrackUsageSample ==
  /\ lastUsage # Nothing =>
       /\ lastUsage.inputTokens >= 0 /\ lastUsage.outputTokens >= 0
       /\ lastUsage.returned.inputTokens = lastUsage.inputTokens
       /\ lastUsage.returned.outputTokens = lastUsage.outputTokens
       /\ lastUsage.returned.totalTokens = lastUsage.inputTokens + lastUsage.outputTokens
       /\ lastUsage.returned.estimatedCost >= 0
  /\ \A k \in 1..Len(requests) :
       /\ requests[k].totalTokens = requests[k].inputTokens + requests[k].outputTokens
       /\ requests[k].estimatedCost >= 0
  /\ Len(requests) >= 1 => requests[Len(requests)] = lastUsage.returned

\* The tracker holds two samples tracked after a reset, and getMetrics has
\* been called.
C25_Witness ==
  /\ Len(requests) = 2
  /\ requests[1] # requests[2]
  /\ lastUsage.returned.totalTokens = 14
  /\ metrics # Nothing
  /\ metrics.totalRequests = 3

\* The sum of the idx-th components of the trackUsage arguments.
RECURSIVE SumArgs(_, _)
SumArgs(args, idx) ==
  IF Len(args) = 0 THEN 0 ELSE Head(args)[idx] + SumArgs(Tail(args), idx)

\* C26: getMetrics returns totalRequests equal to the number of trackUsage
\* calls since the last reset, totals equal to the sums over those calls with
\* totalTokens = totalInputTokens + totalOutputTokens, and averages equal to
\* total / totalRequests; with no sample every field is 0; and getMetrics
\* changes nothing of the tracker.
C26_MetricsSinceReset ==
  /\ [](LET m == getMetrics(requests)
            n == Len(sinceReset)
        IN /\ m.totalRequests = n
           /\ m.totalInputTokens = SumArgs(sinceReset, 1)
           /\ m.totalOutputTokens = SumArgs(sinceReset, 2)
           /\ m.totalTokens = m.totalInputTokens + m.totalOutputTokens
           /\ m.totalCost = SumArgs(sinceReset, 1) * ProInputPrice
                              + SumArgs(sinceReset, 2) * ProOutputPrice
           /\ m.averageTokensPerRequest.den # 0
           /\ m.averageCostPerRequest.den # 0
           /\ n > 0 =>
                /\ m.averageTokensPerRequest.num * n
                     = m.totalTokens * m.averageTokensPerRequest.den
                /\ m.averageCostPerRequest.num * n
                     = m.totalCost * m.averageCostPerRequest.den
           /\ n = 0 =>
                /\ m.averageTokensPerRequest.num = 0
                /\ m.averageCostPerRequest.num = 0)
  /\ [][metrics' # metrics =>
          /\ metrics' = getMetrics(requests)
          /\ requests' = requests
          /\ sinceReset' = sinceReset]_vars

\* getMetrics was called after samples were tracked and the tracker reset:
\* it returned zeros.
C26_Witness ==
  /\ lastUsage # Nothing
  /\ requests = <<>>
  /\ metrics # Nothing
  /\ metrics.totalRequests = 0
  /\ metrics.totalTokens = 0
  /\ metrics.averageTokensPerRequest = Quotient(0, 1)

\* reqs in the order p.
Reordered(reqs, p) == [k \in 1..Len(reqs) |-> reqs[p[k]]]

\* The samples as the entries of agentResults the workflow reduces.
AsAgents(reqs) == [k \in 1..Len(reqs) |-> [tokenUsage |-> reqs[k]]]

\* The token counts of an aggregate.
TokenSums(m) == <<m.totalInputTokens, m.totalOutputTokens, m.totalTokens>>
TokenFields(u) == <<u.inputTokens, u.outputTokens, u.totalTokens>>

\* C27: the token sums of getMetrics are the same for every order in which
\* the samples were tracked, and the workflow's reduction gives the same
\* token sums for every order and every grouping of the samples.
C27_AggregationOrderIndependent ==
  LET n == Len(requests) IN
  /\ \A p \in Permutations(1..n) :
       /\ TokenSums(getMetrics(Reordered(requests, p))) = TokenSums(getMetrics(requests))
       /\ TokenFields(totalTokenUsage(AsAgents(Reordered(requests, p))))
            = TokenFields(totalTokenUsage(AsAgents(requests)))
  /\ \A j \in 0..n :
       TokenFields(totalTokenUsage(
           <<[tokenUsage |-> totalTokenUsage(AsAgents(SubSeq(requests, 1, j)))],
             [tokenUsage |-> totalTokenUsage(AsAgents(SubSeq(requests, j + 1, n)))]>>))
         = TokenFields(totalTokenUsage(AsAgents(requests)))
  /\ TokenFields(totalTokenUsage(AsAgents(requests))) = TokenSums(getMetrics(requests))

\* The tracker holds three different samples.
C27_Witness ==
  /\ Len(requests) = 3
  /\ requests[1] # requests[2]
  /\ requests[2] # requests[3]
  /\ requests[1] # requests[3]

\* C21: in every interleaving of concurrent process calls on one client,
\* each call numbers its own attempts 1, 2, ... and sends its own request
\* body, makes at most Retries + 1 attempts, rejects only after Retries + 1
\* failures of its own, and returns a response to its own request; and while
\* one call waits in a backoff delay every other call can start, have its
\* attempt answered, or retry.
C21_ConcurrentCallsIndependent ==
  \A c \in Calls :
    /\ callAttempt[c] <= Retries + 1
    /\ Len(callSent[c]) = callAttempt[c]
    /\ \A i \in 1..Len(callSent[c]) :
         /\ callSent[c][i].attempt = i
         /\ callSent[c][i].body = callInput[c]
    /\ \A i \in 1..Len(callFailed[c]) : callFailed[c][i].attempt = i
    /\ callPc[c] \in {"inFlight", "returned"} => Len(callFailed[c]) = callAttempt[c] - 1
    /\ callPc[c] = "backoff" =>
         /\ Len(callFailed[c]) = callAttempt[c]
         /\ callAttempt[c] <= Retries
    /\ callPc[c] = "threw" => Len(callFailed[c]) = Retries + 1
    /\ callPc[c] = "returned" =>
         /\ callResult[c] \in AgentResponses(1, callInput[c])
         /\ callResult[c].correlationId = callInput[c].correlationId
    /\ callPc[c] = "backoff" =>
         \A d \in Calls \ {c} :
           /\ callPc[d] = "idle" => ENABLED (\E in \in CallInputs(d) : ProcessCall(d, in))
           /\ callPc[d] = "inFlight" =>
                ENABLED (\E resp \in AgentResponses(1, callInput[d]) :
                           CallAttemptSucceeds(d, resp))
           /\ callPc[d] = "backoff" => ENABLED CallRetry(d)

\* While the first call waits in its third backoff delay, the second call,
\* after a failed attempt of its own, has returned the response to its own
\* request.
C21_Witness ==
  /\ callPc[1] = "backoff"
  /\ callAttempt[1] = 3
  /\ callPc[2] = "returned"
  /\ Len(callFailed[2]) = 1
  /\ callResult[2].correlationId = callInput[2].correlationId
  /\ callInput[1].correlationId # callInput[2].correlationId

\* The positions of the requests to an agent in a log of sent requests.
AttemptsIn(log, agent) == {i \in 1..Len(log) : log[i].agent = agent}

\* C30: in one process call the attempts are made one at a time (an attempt
\* after the first is sent only from a backoff delay, so at most one is in
\* flight); the failed attempts are reported to onFailedAttempt one by one
\* with the numbers 1, 2, 3, ...; a call returns only when its attempt in
\* flight is answered, with that attempt's response; and no attempt is made
\* for a call that has returned.
C30_AttemptsOneAtATime ==
  /\ [](/\ \A i \in 1..Len(failedAttempts) : failedAttempts[i].attempt = i
        /\ clientPc = "inFlight" =>
             /\ Cardinality(AttemptsOf(wfPc)) = Len(failedAttempts) + 1
             /\ attemptNumber = Len(failedAttempts) + 1
             /\ sent[Len(sent)].attempt = attemptNumber
        /\ clientPc = "backoff" =>
             /\ Cardinality(AttemptsOf(wfPc)) = Len(failedAttempts)
             /\ attemptNumber = Len(failedAttempts))
  /\ [][/\ Len(failedAttempts') > Len(failedAttempts) =>
             /\ clientPc = "inFlight"
             /\ Len(failedAttempts') = Len(failedAttempts) + 1
             /\ failedAttempts'[Len(failedAttempts')].attempt = attemptNumber
        /\ (Len(sent') > Len(sent) /\ sent'[Len(sent')].attempt > 1) =>
             /\ clientPc = "backoff"
             /\ Len(sent') = Len(sent) + 1
             /\ sent'[Len(sent')].attempt = sent[Len(sent)].attempt + 1
             /\ sent'[Len(sent')].agent = sent[Len(sent)].agent
        /\ Len(stageResults') > Len(stageResults) =>
             /\ clientPc = "inFlight"
             /\ Len(stageResults') = Len(stageResults) + 1
             /\ sent[Len(sent)].agent = Stages[Len(stageResults')]
             /\ stageResults'[Len(stageResults')]
                  \in AgentResponses(Len(stageResults'), sent[Len(sent)].body)
             /\ AttemptsIn(sent', Stages[Len(stageResults')]) = AttemptsIn(sent, Stages[Len(stageResults')])
        /\ \A k \in 1..Len(stageResults) :
             AttemptsIn(sent', Stages[k]) = AttemptsIn(sent, Stages[k])]_vars

\* The writer call returned the response to its third attempt, after two
\* failed attempts were reported.
C30_Witness ==
  /\ wfPc = "done"
  /\ Len(stageResults) = 3
  /\ Len(failedAttempts) = 2
  /\ failedAttempts[1].attempt = 1
  /\ failedAttempts[2].attempt = 2
  /\ failedAttempts[2].agent = Stages[3]
  /\ Cardinality(AttemptsOf(Stages[3])) = 3

\* The function-calling loop is running.
LoopRunning == pc \in {"awaitModel", "execTools"}

\* processRequest is past the loop.
LoopEnded == pc \in {"awaitUsage", "returned", "threw"}

\* C22: a loop that waits for the tool calls of its batch stops waiting, even
\* when one of them never settles (whatever the caller's deadline is).
C22_DeadlineEndsLoop == (pc = "execTools" /\ pending # {}) ~> (pc # "execTools")

RECURSIVE HistoryResponses(_)
HistoryResponses(k) ==
  IF k = 0 THEN <<>>
  ELSE HistoryResponses(k - 1)
         \o [i \in 1..Len(BatchResults(k).parts) |-> BatchResults(k).parts[i].functionResponse]

\* The function responses of the calls of the current batch that have settled
\* while the batch is still awaited.
SettledResponses ==
  IF pc = "execTools"
  THEN SelectSeq(functionResponses, LAMBDA r : r # Nothing)
  ELSE <<>>

\* Every function response produced so far in this run, and those of them
\* that are not error entries.
AllResponses == HistoryResponses(BatchTurns) \o SettledResponses
SucceededResponses == SelectSeq(AllResponses, LAMBDA r : ~IsErrorEntry(r))

\* How many entries of a list of recorded calls, and of a list of responses,
\* are for the name n.
RecordedFor(fcs, n) == Cardinality({i \in 1..Len(fcs) : fcs[i].name = n})
RespondedFor(resps, n) == Cardinality({i \in 1..Len(resps) : resps[i].name = n})

PartsOf(result) ==
  IF Len(result.candidates) = 0 THEN <<>> ELSE result.candidates[1].parts

\* The response has a tool-call part; the response has a non-empty text part.
HasCallPart(result) ==
  \E i \in 1..Len(PartsOf(result)) : "functionCall" \in DOMAIN PartsOf(result)[i]
HasText(result) ==
  \E i \in 1..Len(PartsOf(result)) :
    "text" \in DOMAIN PartsOf(result)[i] /\ PartsOf(result)[i].text # ""

\* The latest generateContent call of the loop resolved, with lastResponse.
Responded == lastResponse # Nothing /\ lastTurn # "failed"

\* C34: a model response with a tool-call part is a batch, with or without
\* text beside the calls: its calls are executed, no final answer is returned
\* in that iteration, and after the batch the loop makes another model call
\* (or ends with the budget error); a response is the final answer only when
\* it has no tool-call part and a non-empty text part; a response with
\* neither, also one whose only text is empty, ends the loop as malformed.
C34_CallsBeforeText ==
  /\ [](Responded =>
          /\ HasCallPart(lastResponse) =>
               /\ loopResult = Nothing
               /\ output = Nothing
               /\ Len(calls) >= 1
               /\ \A i \in 1..Len(calls) :
                    \E j \in 1..Len(PartsOf(lastResponse)) :
                      /\ "functionCall" \in DOMAIN PartsOf(lastResponse)[j]
                      /\ PartsOf(lastResponse)[j].functionCall = calls[i]
               /\ pc \in {"execTools", "awaitModel", "threw"}
               /\ pc = "execTools" => Len(outcomes) = Len(calls)
               /\ pc = "awaitModel" => \A i \in 1..Len(calls) : outcomes[i] # Nothing
               /\ pc = "threw" => thrown = ExceededError /\ iteration = maxIterations
          /\ (~HasCallPart(lastResponse) /\ HasText(lastResponse)) =>
               /\ loopResult # Nothing
               /\ loopResult.finalAnswer # ""
               /\ \E j \in 1..Len(PartsOf(lastResponse)) :
                    PartsOf(lastResponse)[j] = TextPart(loopResult.finalAnswer)
          /\ (~HasCallPart(lastResponse) /\ ~HasText(lastResponse)) =>
               /\ loopResult = Nothing
               /\ pc = "threw"
               /\ thrown \in {TerminatedError, ExceededError}
          /\ loopResult # Nothing => ~HasCallPart(lastResponse) /\ HasText(lastResponse))
  /\ [][(pc = "execTools" /\ pc' # "execTools") =>
          /\ pending = {}
          /\ loopResult' = Nothing
          /\ IF iteration < maxIterations
             THEN pc' = "awaitModel" /\ iteration' = iteration + 1
             ELSE pc' = "threw"]_vars

\* The model answered with a text part and a tool call; the call was executed
\* and the loop is at its second model call, with no final answer.
C34_Witness ==
  /\ pc = "awaitModel"
  /\ iteration = 2
  /\ Responded
  /\ HasCallPart(lastResponse)
  /\ HasText(lastResponse)
  /\ loopResult = Nothing
  /\ BatchTurns = 1
  /\ outcomes[1] # Nothing

\* C33: once the loop has returned a final answer the request does not fail:
\* processRequest is on its way to return, or has returned, that answer.
C33_FinalAnswerReturned ==
  loopResult # Nothing =>
    /\ pc \in {"awaitUsage", "returned"}
    /\ thrown = Nothing
    /\ pc = "returned" => output.result = loopResult.finalAnswer

\* C36: agentResults is at every point a prefix of [research-agent,
\* analysis-agent, writer-agent], one entry per stage whose call returned,
\* each with success = true, and it grows only when the attempt in flight of
\* the stage in progress is answered; a stage that failed has no entry; on
\* success intermediateResults holds the research and the analysis result, in
\* this order, and not the writer's.
C36_AgentsListIsSucceededPrefix ==
  /\ [](/\ Len(agentResults) <= 3
        /\ Len(agentResults) = Len(stageResults)
        /\ \A i \in 1..Len(agentResults) :
             /\ agentResults[i].name = Stages[i]
             /\ agentResults[i].success
             /\ agentResults[i].tokenUsage = stageResults[i].metadata.tokenUsage
        /\ wfPc = "failed" =>
             /\ Len(agentResults) < 3
             /\ failedAttempts[Len(failedAttempts)].agent = Stages[Len(agentResults) + 1]
             /\ \A i \in 1..Len(agentResults) :
                  agentResults[i].name # failedAttempts[Len(failedAttempts)].agent
        /\ wfPc = "done" =>
             /\ wfOutput.metadata.agents = agentResults
             /\ Len(agentResults) = 3
             /\ wfOutput.intermediateResults =
                  <<[agentName |-> Stages[1], result |-> stageResults[1].result],
                    [agentName |-> Stages[2], result |-> stageResults[2].result]>>)
  /\ [][agentResults' # agentResults =>
          \/ wfPc = "idle" /\ agentResults' = <<>>
          \/ /\ clientPc = "inFlight"
             /\ Len(agentResults') = Len(agentResults) + 1
             /\ SubSeq(agentResults', 1, Len(agentResults)) = agentResults
             /\ agentResults'[Len(agentResults')].name = wfPc
             /\ Len(stageResults') = Len(stageResults) + 1]_vars

\* The analysis stage failed after the research stage succeeded: the list
\* holds the research entry only.
C36_Witness ==
  /\ wfPc = "failed"
  /\ Len(agentResults) = 1
  /\ agentResults[1].name = Stages[1]
  /\ agentResults[1].success
  /\ failedAttempts[Len(failedAttempts)].agent = Stages[2]
  /\ Len(failedAttempts) = Retries + 1

ConnectionState == <<connected, client, transport>>

\* C37: over calls of connect, disconnect, listTools and callTool made one
\* after the other, connected implies that a Client object exists; listTools
\* and callTool on a client that is not connected throw 'Not connected to MCP
\* server' and send nothing; connect on a connected client and disconnect on
\* a disconnected one change nothing and return; a connect that fails throws
\* and leaves connected false; a disconnect whose close fails throws nothing
\* and leaves connected true.
C37_ConnectionStateConsistent ==
  /\ [](connected => client # Nothing /\ transport # Nothing)
  /\ [][\A c \in Calls :
          /\ (connected /\ ConnectStart(c)) =>
               /\ ConnectionState' = ConnectionState
               /\ connPc' = connPc
               /\ made' = made
               /\ ~mcpOutcome'.threw
               /\ ~mcpOutcome'.contacted
          /\ (~connected /\ DisconnectStart(c)) =>
               /\ ConnectionState' = ConnectionState
               /\ connPc' = connPc
               /\ ~mcpOutcome'.threw
               /\ ~mcpOutcome'.contacted
          /\ \A ok \in BOOLEAN :
               /\ (~connected /\ (ListTools(c, ok) \/ CallTool(c, ok))) =>
                    /\ mcpOutcome'.threw
                    /\ mcpOutcome'.error = NotConnectedError.message
                    /\ ~mcpOutcome'.contacted
                    /\ ConnectionState' = ConnectionState
               /\ (connected /\ (ListTools(c, ok) \/ CallTool(c, ok))) =>
                    /\ mcpOutcome'.contacted
                    /\ mcpOutcome'.threw = ~ok
                    /\ ConnectionState' = ConnectionState
          /\ ConnectSettles(c, FALSE) =>
               /\ ~connected'
               /\ mcpOutcome'.threw
               /\ mcpOutcome'.error = ConnectError.message
          /\ ConnectSettles(c, TRUE) => connected' /\ client' = awaited[c]
          /\ DisconnectSettles(c, FALSE) =>
               /\ connected'
               /\ client' = client
               /\ ~mcpOutcome'.threw
          /\ DisconnectSettles(c, TRUE) =>
               /\ ~connected'
               /\ client' = Nothing
               /\ transport' = Nothing]_vars

\* A disconnect whose close failed returned: the client is still connected,
\* and it has made a failed connect before the one that connected it.
C37_Witness ==
  /\ mcpOutcome.op = "disconnect"
  /\ mcpOutcome.note = "close failed"
  /\ ~mcpOutcome.threw
  /\ connected
  /\ client = [id |-> 2]
  /\ made = 2

\* The Client objects whose connection is being made or has been made since
\* the last completed disconnect.
LiveConnections ==
  opened \cup {awaited[c] : c \in {d \in Calls : connPc[d] = "connecting"}}

\* C38: however connect calls interleave, at most one transport is in use
\* (being connected or connected) between two consecutive disconnects.
C38_SingleConnection == Cardinality(LiveConnections) <= 1

\* C39: a session is added only by a POST without a session header, under
\* the id its transport generated; a POST with an id that is not stored is
\* answered 404 and adds nothing; a request with a stored id goes to the
\* transport stored under that id; an id that was deleted or whose transport
\* closed is not in the table, and POST and DELETE with it are answered 404
\* and GET 400.
C39_SessionTableConsistent ==
  /\ [](/\ DOMAIN sessions \subseteq 1..issued
        /\ \A id \in DOMAIN sessions : sessions[id].sessionId = id
        /\ closed \cap DOMAIN sessions = {}
        /\ closed \cup DOMAIN sessions = 1..issued)
  /\ [][/\ DOMAIN sessions' \ DOMAIN sessions # {} =>
             /\ reply'.method = "POST"
             /\ reply'.header = Nothing
             /\ issued' = issued + 1
             /\ DOMAIN sessions' = DOMAIN sessions \cup {issued'}
             /\ reply'.to = sessions'[issued']
        /\ \A header \in SessionHeaders \ {Nothing} :
             /\ ~Stored(header) =>
                  /\ \A initialize \in BOOLEAN :
                       Post(header, initialize) =>
                         reply'.status = 404 /\ sessions' = sessions
                  /\ Get(header) => reply'.status = 400 /\ sessions' = sessions
                  /\ \A ok \in BOOLEAN :
                       Delete(header, ok) => reply'.status = 404 /\ sessions' = sessions
             /\ Stored(header) =>
                  /\ \A initialize \in BOOLEAN :
                       Post(header, initialize) =>
                         /\ reply'.to = sessions[header.id]
                         /\ reply'.to.sessionId = header.id
                         /\ sessions' = sessions
                  /\ Get(header) =>
                       reply'.to = sessions[header.id] /\ sessions' = sessions
                  /\ Delete(header, TRUE) =>
                       /\ reply'.status = 200
                       /\ header.id \notin DOMAIN sessions'
                       /\ header.id \in closed'
        /\ \A id \in closed : id \notin DOMAIN sessions']_vars

\* The first session was deleted, a second one is stored, and a POST with
\* the first id has just been answered 404.
C39_Witness ==
  /\ closed = {1}
  /\ DOMAIN sessions = {2}
  /\ reply.method = "POST"
  /\ reply.header = [id |-> 1]
  /\ reply.status = 404

\* C35: the agent of each stage runs processRequest at most once for one
\* workflow execution, and when the workflow returns, the usage the agents'
\* trackers recorded is the totalTokenUsage it reports.
C35_StageProcessedOnce ==
  /\ \A k \in 1..3 : runs[k] <= 1
  /\ wfPc = "done" =>
       agentTracked[1] + agentTracked[2] + agentTracked[3]
         = wfOutput.metadata.totalTokenUsage.totalTokens

====
